---------------------------- MODULE Spec2Model ----------------------------
(***************************************************************************)
(* Model of the custom-explorer tree data provider (src/src/extension.ts,  *)
(* lines 1-778: the variant with cachedTreePath).                          *)
(*                                                                         *)
(* JavaScript objects are elements of Obj; a node's fields live in the     *)
(* function `node`, so that object identity (===) and the id field are     *)
(* distinct things, as in the code.  Strings are sequences of one-letter   *)
(* strings, so that startsWith, substring, basename and concatenation are  *)
(* computed and not assumed.  Every action is one whole handler: it is     *)
(* computed by operators over a record s holding the provider's fields     *)
(* and the trace `log` of what the handler did.                            *)
(*                                                                         *)
(* Specifications:                                                         *)
(*   Spec          every operation of the provider on one disk and setting *)
(*   SpecImport    imports and added files over several disks and settings *)
(*   SpecCommands  the commands that suspend at an input prompt            *)
(*   SpecLoad      activation with a stored forest, sort engine, restart   *)
(***************************************************************************)
EXTENDS Integers, Sequences, FiniteSets, TLC

VARIABLES
    data,           \* CustomTreeDataProvider.data: the root sibling list
    node,           \* the fields of every MyNode object
    pathIndex,      \* CustomTreeDataProvider.pathIndex
    uriToNodeMap,   \* CustomTreeDataProvider.uriToNodeMap
    stored,         \* workspaceState[storageKey], as serialized
    disk,           \* the file system: what fs.readdirSync answers per path
    config,         \* the setting customExplorer.excludeExtensions
    pending,        \* commands suspended at their input prompt
    log,            \* what the last handler did, in order
    last,           \* the last handler (and, where recorded, its arguments)
    steps           \* number of handlers run so far

vars == <<data, node, pathIndex, uriToNodeMap, stored, disk, config, pending,
          log, last, steps>>

\* ------------------------------------------------------------------ bounds

\* Number of MyNode objects alive at a time.
MaxNodes == 3
\* Longest batch handed to a handler (sources of a drop, targets of a
\* multi-select delete, pairs of a rename notification, deleted paths).
MaxBatch == 2
\* Number of handlers run in one behaviour.
MaxSteps == 4
\* Commands suspended at their input prompt at a time.
MaxPending == 2
\* Values the id draw keeps apart per object slot: one more than the ids
\* of a slot the state can hold at once (node, index key, persisted node).
IdGenerations == 4

\* ----------------------------------------------------------------- strings

\* Labels a user types into the input box.
UserLabels == { <<"a">>, <<"b">> }
\* Paths that drops and file-system notifications carry.
PathA   == <<"/", "a">>
PathB   == <<"/", "b">>
PathAF  == <<"/", "a", "/", "f">>
PathAG  == <<"/", "a", "/", "g">>
PathBF  == <<"/", "b", "/", "f">>
PathABF == <<"/", "a", "b", "/", "f">>
PathBBF == <<"/", "b", "b", "/", "f">>
PathFM  == <<"/", "f", ".", "m">>

\* Collation rank of a letter (String.prototype.localeCompare on the
\* model's alphabet: punctuation before letters, letters in order).
CharOrd(c) ==
    CASE c = "_" -> 1
      [] c = "." -> 2
      [] c = "/" -> 3
      [] c = "a" -> 4
      [] c = "b" -> 5
      [] c = "D" -> 6
      [] c = "e" -> 7
      [] c = "f" -> 8
      [] c = "g" -> 9
      [] c = "m" -> 10
      [] c = "o" -> 11
      [] c = "r" -> 12
      [] c = "S" -> 13
      [] c = "t" -> 14
      [] OTHER -> 15

StrLess(x, y) ==
    \E i \in 1..Len(y) :
        /\ i <= Len(x) + 1
        /\ \A j \in 1..(i - 1) : x[j] = y[j]
        /\ (i = Len(x) + 1 \/ CharOrd(x[i]) < CharOrd(y[i]))

localeCompare(x, y) == IF x = y THEN 0 ELSE IF StrLess(x, y) THEN 0 - 1 ELSE 1

startsWith(str, prefix) ==
    /\ Len(prefix) <= Len(str)
    /\ SubSeq(str, 1, Len(prefix)) = prefix

endsWith(str, suffix) ==
    /\ Len(suffix) <= Len(str)
    /\ SubSeq(str, Len(str) - Len(suffix) + 1, Len(str)) = suffix

\* str.substring(from): the rest of str after its first `from` letters.
substring(str, from) == SubSeq(str, from + 1, Len(str))

RECURSIVE StripTrailingSep(_)
StripTrailingSep(p) ==
    IF Len(p) > 1 /\ p[Len(p)] = "/"
    THEN StripTrailingSep(SubSeq(p, 1, Len(p) - 1))
    ELSE p

\* path.basename (posix)
basename(p) ==
    LET q == StripTrailingSep(p)
        seps == { i \in 1..Len(q) : q[i] = "/" }
        lastSep == CHOOSE i \in seps : \A j \in seps : j <= i
    IN  IF seps = {} THEN q ELSE SubSeq(q, lastSep + 1, Len(q))

\* ------------------------------------------------------------------- nodes

\* The heap: more object slots than any specification constructs.
Obj == 1..(MaxNodes + 2)
\* undefined, where an object is expected
NoObj == 0 - 1
\* The holder of the root list this.data, where a sibling list is named by
\* its owner.
RootOwner == NoObj
\* undefined / empty string, where a string is expected (both are falsy)
NoStr == << >>

\* An object that was not constructed yet.
Blank ==
    [ id |-> NoObj, label |-> NoStr, type |-> "none", children |-> << >>,
      filePath |-> NoStr, collapsibleState |-> "None", cachedTreePath |-> NoStr ]

Allocated(nf) == { o \in Obj : nf[o].type # "none" }

\* `node.children` is defined (truthy) exactly for groups: every group is
\* constructed with children: [], no file node ever gets the field.
hasChildren(nf, o) == nf[o].type = "group"

\* The sibling list owned by `owner` (this.data for the root).
GetList(s, owner) == IF owner = RootOwner THEN s.data ELSE s.node[owner].children

SetList(s, owner, list) ==
    IF owner = RootOwner
    THEN [s EXCEPT !.data = list]
    ELSE [s EXCEPT !.node[owner].children = list]

Ev(s, e, o) == [s EXCEPT !.log = Append(@, [e |-> e, o |-> o])]

RECURSIVE ReachFrom(_, _)
ReachFrom(nf, list) ==
    UNION { {list[i]} \cup ReachFrom(nf, nf[list[i]].children) : i \in 1..Len(list) }

\* The objects of the forest.
Reach(s) == ReachFrom(s.node, s.data)

\* ------------------------------------------------------------------- URIs

\* vscode.Uri values by their toString(): file://<path>,
\* custom-explorer://group/<id>, custom-explorer://tree<treePath>.
FileUri(p) == [scheme |-> "file", authority |-> "", id |-> NoObj, path |-> p]

getGroupUri(nf, o) ==
    [scheme |-> "custom-explorer", authority |-> "group", id |-> nf[o].id, path |-> NoStr]

getCustomExplorerUri(nf, o) ==
    LET treePath == IF nf[o].cachedTreePath # NoStr
                    THEN nf[o].cachedTreePath
                    ELSE <<"/">> \o nf[o].label
    IN  [scheme |-> "custom-explorer", authority |-> "tree", id |-> NoObj, path |-> treePath]

\* Map.prototype.set
MapSet(m, k, v) == [x \in (DOMAIN m) \cup {k} |-> IF x = k THEN v ELSE m[x]]
\* Map.prototype.get (undefined when absent)
MapGet(m, k) == IF k \in DOMAIN m THEN m[k] ELSE NoObj
EmptyMap == [x \in {} |-> NoObj]

\* --------------------------------------------------------------- generateId

\* Ids occurring anywhere in the program state: in a live object, in a key
\* of the identifier index, in the persisted forest.
RECURSIVE TreeIds(_)
TreeIds(tree) == UNION { {tree[i].id} \cup TreeIds(tree[i].children) : i \in 1..Len(tree) }

UsedIds(s) ==
    { s.node[o].id : o \in Obj }
        \cup { k.id : k \in DOMAIN s.uriToNodeMap }
        \cup TreeIds(s.stored)

\* Math.random().toString(36).substring(2, 15), drawn for object o: an
\* opaque value, which the program only ever compares for equality.  The
\* draw is modelled as a value that occurs nowhere in the program state
\* (no live object, no index key, no persisted node has it); the values
\* drawn for the object in slot o are o * IdGenerations + g.
\* A generator that hands out one and the same value.
generateId_Constant(s, o) == IdGenerations

generateId(s, o) ==
    LET free == { g \in 0..(IdGenerations - 1) : o * IdGenerations + g \notin UsedIds(s) }
    IN  o * IdGenerations + (CHOOSE g \in free : \A h \in free : g <= h)

\* -------------------------------------------------------------- Sort Engine

\* The comparator without its group-before-file rule.
compareNodes_LabelOnly(nf, a, b) == localeCompare(nf[a].label, nf[b].label)

\* The comparator of nodes.sort: negative when a sorts before b.
compareNodes(nf, a, b) ==
    IF nf[a].type = "group" /\ nf[b].type # "group" THEN 0 - 1
    ELSE IF nf[a].type # "group" /\ nf[b].type = "group" THEN 1
    ELSE localeCompare(nf[a].label, nf[b].label)

\* Array.prototype.sort is stable: x goes after every element that does not
\* sort after it.
RECURSIVE InsertSorted(_, _, _)
\* A sort that puts x in front of the elements it compares equal to.
InsertSorted_Unstable(nf, sorted, x) ==
    IF sorted = << >> THEN <<x>>
    ELSE IF compareNodes(nf, sorted[Len(sorted)], x) < 0 THEN Append(sorted, x)
    ELSE Append(InsertSorted(nf, SubSeq(sorted, 1, Len(sorted) - 1), x), sorted[Len(sorted)])

InsertSorted(nf, sorted, x) ==
    IF sorted = << >> THEN <<x>>
    ELSE IF compareNodes(nf, sorted[Len(sorted)], x) <= 0 THEN Append(sorted, x)
    ELSE Append(InsertSorted(nf, SubSeq(sorted, 1, Len(sorted) - 1), x), sorted[Len(sorted)])

RECURSIVE SortList(_, _)
SortList(nf, list) ==
    IF list = << >> THEN << >>
    ELSE InsertSorted(nf, SortList(nf, SubSeq(list, 1, Len(list) - 1)), list[Len(list)])

RECURSIVE sortNodesAt(_, _)
RECURSIVE sortEach(_, _, _)
\* sortNodesRecursive applied to the sibling list owned by `owner`.
sortNodesAt(s, owner) ==
    LET sorted == SortList(s.node, GetList(s, owner))
    IN  sortEach(SetList(s, owner, sorted), sorted, 1)

sortEach(s, list, i) ==
    IF i > Len(list) THEN s
    ELSE IF hasChildren(s.node, list[i]) /\ Len(s.node[list[i]].children) > 0
         THEN sortEach(sortNodesAt(s, list[i]), list, i + 1)
         ELSE sortEach(s, list, i + 1)

sortNodesRecursive(s) == sortNodesAt(Ev(s, "sort", NoObj), RootOwner)

\* ------------------------------------------------------------ Index Builder

RECURSIVE traverse(_, _, _, _)
traverse(s, list, i, parentPath) ==
    IF i > Len(list) THEN s
    ELSE
        LET o  == list[i]
            tp == parentPath \o <<"/">> \o s.node[o].label
            s1 == [s EXCEPT !.node[o].cachedTreePath = tp]
            s2 == IF s1.node[o].filePath # NoStr
                  THEN [s1 EXCEPT
                          !.pathIndex = MapSet(@, s1.node[o].filePath, o),
                          !.uriToNodeMap = MapSet(@, FileUri(s1.node[o].filePath), o)]
                  ELSE s1
            s3 == IF s2.node[o].type = "group"
                  THEN [s2 EXCEPT !.uriToNodeMap = MapSet(@, getGroupUri(s2.node, o), o)]
                  ELSE s2
            s4 == [s3 EXCEPT !.uriToNodeMap = MapSet(@, getCustomExplorerUri(s3.node, o), o)]
            s5 == IF hasChildren(s4.node, o)
                  THEN traverse(s4, s4.node[o].children, 1, tp)
                  ELSE s4
        IN  traverse(s5, list, i + 1, parentPath)

rebuildIndex(s) ==
    LET s0 == [Ev(s, "rebuild", NoObj) EXCEPT !.pathIndex = EmptyMap, !.uriToNodeMap = EmptyMap]
    IN  traverse(s0, s0.data, 1, NoStr)

\* -------------------------------------------------------------- persistence

\* JSON serialization of a sibling list: each node with all its attributes,
\* its children nested in it, in order; object identity is not kept.
RECURSIVE Serialize(_, _)
Serialize(nf, list) ==
    [i \in 1..Len(list) |-> [nf[list[i]] EXCEPT !.children = Serialize(nf, @)]]

\* What workspaceState.update(storageKey, this.data) keeps.
Snapshot(s) == Serialize(s.node, s.data)

\* A write that reaches no storage.
persist_Lost(s) == Ev(s, "persist", NoObj)

persist(s) == [Ev(s, "persist", NoObj) EXCEPT !.stored = Snapshot(s)]

\* this._onDidChangeTreeData.fire(target)
fire(s, target) == Ev(s, "fire", target)

\* saveData that writes before it rebuilds the indexes.
saveData_PersistFirst(s) == rebuildIndex(persist(sortNodesRecursive(s)))

saveData(s) == persist(sortNodesRecursive(rebuildIndex(s)))

saveAndRefresh(s) == fire(saveData(sortNodesRecursive(s)), NoObj)

\* --------------------------------------------------------------- Node Store

RemoveAt(list, index) == SubSeq(list, 1, index - 1) \o SubSeq(list, index + 1, Len(list))

\* The object the next `{ id: ..., ... }` literal constructs.
NewObj(s) == CHOOSE o \in Obj \ Allocated(s.node) : \A p \in Obj \ Allocated(s.node) : o <= p

FreeObjs(s) == Cardinality(Obj \ Allocated(s.node))

RECURSIVE removeRecursive(_, _, _)
RECURSIVE removeInChildren(_, _, _, _)
\* removeNode.removeRecursive on the sibling list owned by `owner`: the
\* first sibling whose id equals `id` is spliced out, else the children of
\* each sibling are searched in turn.
removeRecursive(s, owner, id) ==
    LET list == GetList(s, owner)
        hits == { i \in 1..Len(list) : s.node[list[i]].id = id }
        index == CHOOSE i \in hits : \A j \in hits : i <= j
    IN  IF hits # {}
        THEN [s |-> Ev(SetList(s, owner, RemoveAt(list, index)), "splice", NoObj),
              result |-> TRUE]
        ELSE removeInChildren(s, list, 1, id)

removeInChildren(s, list, i, id) ==
    IF i > Len(list) THEN [s |-> s, result |-> FALSE]
    ELSE IF hasChildren(s.node, list[i])
         THEN LET r == removeRecursive(s, list[i], id)
              IN  IF r.result THEN r ELSE removeInChildren(s, list, i + 1, id)
         ELSE removeInChildren(s, list, i + 1, id)

\* removeNode that saves and notifies whether or not it removed anything.
removeNode_SaveAnyway(s, n, shouldSave) ==
    IF n = NoObj THEN [s |-> s, result |-> FALSE]
    ELSE LET r == removeRecursive(s, RootOwner, s.node[n].id)
         IN  IF shouldSave
             THEN [s |-> saveAndRefresh(r.s), result |-> r.result]
             ELSE r

removeNode(s, n, shouldSave) ==
    IF n = NoObj THEN [s |-> s, result |-> FALSE]
    ELSE LET r == removeRecursive(s, RootOwner, s.node[n].id)
         IN  IF shouldSave /\ r.result
             THEN [s |-> saveAndRefresh(r.s), result |-> TRUE]
             ELSE r

\* parent.children.push(o) / this.data.push(o)
push(s, owner, o) == Ev(SetList(s, owner, Append(GetList(s, owner), o)), "push", NoObj)

setExpanded(s, o) == [s EXCEPT !.node[o].collapsibleState = "Expanded"]

isGroupArg(s, parent) == parent # NoObj /\ s.node[parent].type = "group"

\* addGroup that leaves the state of the parent alone.
addGroupStore_NoExpand(s, label, parent) ==
    LET o  == NewObj(s)
        s1 == [s EXCEPT !.node[o] =
                  [ id |-> generateId(s, o), label |-> label, type |-> "group",
                    children |-> << >>, filePath |-> NoStr,
                    collapsibleState |-> "Expanded", cachedTreePath |-> NoStr ]]
    IN  IF isGroupArg(s1, parent)
        THEN push(s1, parent, o)
        ELSE push(s1, RootOwner, o)

\* addGroup up to its call of saveAndRefresh.
addGroupStore(s, label, parent) ==
    LET o  == NewObj(s)
        s1 == [s EXCEPT !.node[o] =
                  [ id |-> generateId(s, o), label |-> label, type |-> "group",
                    children |-> << >>, filePath |-> NoStr,
                    collapsibleState |-> "Expanded", cachedTreePath |-> NoStr ]]
    IN  IF isGroupArg(s1, parent)
        THEN setExpanded(push(s1, parent, o), parent)
        ELSE push(s1, RootOwner, o)

addGroup(s, label, parent) == saveAndRefresh(addGroupStore(s, label, parent))

\* config.get('excludeExtensions') || []: read anew at each check.
excludeExtensions == config

\* An exclusion check that compares the whole name with the setting's entries.
shouldExclude_WholeName(filePath) == basename(filePath) \in excludeExtensions

shouldExclude(filePath) ==
    LET fileName == basename(filePath)
    IN  \E ext \in excludeExtensions : endsWith(fileName, ext)

\* addFile of a file that is not excluded, up to its call of saveAndRefresh.
addFileStore(s, filePath, parent) ==
    LET fileName == basename(filePath)
        o  == NewObj(s)
        s1 == [s EXCEPT !.node[o] =
                  [ id |-> generateId(s, o), label |-> fileName, type |-> "file",
                    children |-> << >>, filePath |-> filePath,
                    collapsibleState |-> "None", cachedTreePath |-> NoStr ]]
    IN  IF isGroupArg(s1, parent)
        THEN setExpanded(push(s1, parent, o), parent)
        ELSE push(s1, RootOwner, o)

addFile(s, filePath, parent) ==
    IF shouldExclude(basename(filePath)) THEN s
    ELSE saveAndRefresh(addFileStore(s, filePath, parent))

\* node.label = newName
renameNodeStore(s, n, newName) ==
    Ev([s EXCEPT !.node[n].label = newName], "setLabel", NoObj)

renameNode(s, n, newName) == saveAndRefresh(renameNodeStore(s, n, newName))

\* ---------------------------------------------------------- Move/Drop Resolver

RECURSIVE isDescendant(_, _, _)
isDescendant(nf, parent, potentialChild) ==
    /\ hasChildren(nf, parent)
    /\ \E i \in 1..Len(nf[parent].children) :
          \/ nf[parent].children[i] = potentialChild
          \/ isDescendant(nf, nf[parent].children[i], potentialChild)

\* isValidMove without the descendant walk.
isValidMove_SelfOnly(nf, source, target) == source # target

isValidMove(nf, source, target) ==
    IF source = target THEN FALSE
    ELSE IF target = NoObj THEN TRUE
    ELSE ~isDescendant(nf, source, target)

\* moveNodes that reattaches a source without detaching it first.
moveOne_NoDetach(r, source, target) ==
    IF ~isValidMove(r.s.node, source, target) THEN r
    ELSE IF isGroupArg(r.s, target)
         THEN [s |-> setExpanded(push(r.s, target, source), target), isChanged |-> TRUE]
         ELSE [s |-> push(r.s, RootOwner, source), isChanged |-> TRUE]

\* moveNodes that runs the save cycle for each source it reattaches.
moveOne_SaveEach(r, source, target) ==
    IF ~isValidMove(r.s.node, source, target) THEN r
    ELSE LET rm == removeNode(r.s, source, FALSE)
         IN  IF rm.result
             THEN IF isGroupArg(rm.s, target)
                  THEN [s |-> saveAndRefresh(setExpanded(push(rm.s, target, source), target)),
                        isChanged |-> TRUE]
                  ELSE [s |-> saveAndRefresh(push(rm.s, RootOwner, source)), isChanged |-> TRUE]
             ELSE [s |-> rm.s, isChanged |-> r.isChanged]

\* moveNodes that reattaches every source to the root list.
moveOne_AlwaysRoot(r, source, target) ==
    IF ~isValidMove(r.s.node, source, target) THEN r
    ELSE LET rm == removeNode(r.s, source, FALSE)
         IN  IF rm.result
             THEN [s |-> push(rm.s, RootOwner, source), isChanged |-> TRUE]
             ELSE [s |-> rm.s, isChanged |-> r.isChanged]

\* moveNodes that reattaches nothing when the target is a file node.
moveOne_DropOnFile(r, source, target) ==
    IF ~isValidMove(r.s.node, source, target) THEN r
    ELSE LET rm == removeNode(r.s, source, FALSE)
         IN  IF rm.result
             THEN IF isGroupArg(rm.s, target)
                  THEN [s |-> setExpanded(push(rm.s, target, source), target), isChanged |-> TRUE]
                  ELSE IF target = NoObj
                  THEN [s |-> push(rm.s, RootOwner, source), isChanged |-> TRUE]
                  ELSE [s |-> rm.s, isChanged |-> TRUE]
             ELSE [s |-> rm.s, isChanged |-> r.isChanged]

\* One round of sources.forEach in moveNodes.
moveOne(r, source, target) ==
    IF ~isValidMove(r.s.node, source, target) THEN r
    ELSE LET rm == removeNode(r.s, source, FALSE)
         IN  IF rm.result
             THEN IF isGroupArg(rm.s, target)
                  THEN [s |-> setExpanded(push(rm.s, target, source), target), isChanged |-> TRUE]
                  ELSE [s |-> push(rm.s, RootOwner, source), isChanged |-> TRUE]
             ELSE [s |-> rm.s, isChanged |-> r.isChanged]

RECURSIVE moveEach(_, _, _, _)
moveEach(r, sources, i, target) ==
    IF i > Len(sources) THEN r
    ELSE moveEach(moveOne(r, sources[i], target), sources, i + 1, target)

moveNodes(s, sources, target) ==
    LET r == moveEach([s |-> s, isChanged |-> FALSE], sources, 1, target)
    IN  IF r.isChanged THEN saveAndRefresh(r.s) ELSE r.s

\* ------------------------------------------------------------- Sync Reconciler

\* this.pathIndex.get(p)
pathIndexGet(s, p) == MapGet(s.pathIndex, p)

RECURSIVE updatePathRecursive(_, _, _, _)
RECURSIVE updateEachChild(_, _, _, _, _)
updatePathRecursive(s, o, oldPrefix, newPrefix) ==
    IF hasChildren(s.node, o)
    THEN updateEachChild(s, s.node[o].children, 1, oldPrefix, newPrefix)
    ELSE s

updateEachChild(s, list, i, oldPrefix, newPrefix) ==
    IF i > Len(list) THEN s
    ELSE
        LET child == list[i]
            fp == s.node[child].filePath
            s1 == IF fp # NoStr /\ startsWith(fp, oldPrefix)
                  THEN Ev([s EXCEPT !.node[child].filePath =
                                newPrefix \o substring(fp, Len(oldPrefix))],
                          "setPath", NoObj)
                  ELSE s
        IN  updateEachChild(updatePathRecursive(s1, child, oldPrefix, newPrefix),
                            list, i + 1, oldPrefix, newPrefix)

\* A round of the loop of handleFileRename that saves by itself.
renameOne_SaveEach(r, file) ==
    LET s0 == Ev(r.s, "read", NoObj)
        targetNode == pathIndexGet(r.s, file.oldPath)
        s1 == Ev([s0 EXCEPT !.node[targetNode].label = basename(file.newPath)],
                 "setLabel", NoObj)
        s2 == Ev([s1 EXCEPT !.node[targetNode].filePath = file.newPath],
                 "setPath", NoObj)
    IN  IF targetNode # NoObj
        THEN [s |-> saveAndRefresh(
                        updatePathRecursive(s2, targetNode, file.oldPath, file.newPath)),
              isChanged |-> TRUE]
        ELSE [s |-> s0, isChanged |-> r.isChanged]

\* One round of the loop of handleFileRename over { oldUri, newUri }.
renameOne(r, file) ==
    LET s0 == Ev(r.s, "read", NoObj)
        targetNode == pathIndexGet(r.s, file.oldPath)
        s1 == Ev([s0 EXCEPT !.node[targetNode].label = basename(file.newPath)],
                 "setLabel", NoObj)
        s2 == Ev([s1 EXCEPT !.node[targetNode].filePath = file.newPath],
                 "setPath", NoObj)
    IN  IF targetNode # NoObj
        THEN [s |-> updatePathRecursive(s2, targetNode, file.oldPath, file.newPath),
              isChanged |-> TRUE]
        ELSE [s |-> s0, isChanged |-> r.isChanged]

RECURSIVE renameEach(_, _, _)
renameEach(r, files, i) ==
    IF i > Len(files) THEN r ELSE renameEach(renameOne(r, files[i]), files, i + 1)

handleFileRename(s, files) ==
    LET r == renameEach([s |-> s, isChanged |-> FALSE], files, 1)
    IN  IF r.isChanged THEN saveAndRefresh(r.s) ELSE r.s

\* One round of the loop of handleFileDelete.
deleteOne(r, fsPath) ==
    LET s0 == Ev(r.s, "read", NoObj)
        n  == pathIndexGet(r.s, fsPath)
    IN  IF n # NoObj
        THEN [s |-> removeNode(s0, n, FALSE).s, isChanged |-> TRUE]
        ELSE [s |-> s0, isChanged |-> r.isChanged]

RECURSIVE deleteEach(_, _, _)
deleteEach(r, files, i) ==
    IF i > Len(files) THEN r ELSE deleteEach(deleteOne(r, files[i]), files, i + 1)

handleFileDelete(s, files) ==
    LET r == deleteEach([s |-> s, isChanged |-> FALSE], files, 1)
    IN  IF r.isChanged THEN saveAndRefresh(r.s) ELSE r.s

\* ------------------------------------------------------------------ getParent

Elems(list) == { list[i] : i \in 1..Len(list) }

\* findParent that looks at the given list only and not below it.
findParent_TopLevelOnly(nf, list, i, target) ==
    LET holders == { k \in i..Len(list) :
                       hasChildren(nf, list[k]) /\ target \in Elems(nf[list[k]].children) }
    IN  IF holders = {} THEN NoObj
        ELSE list[CHOOSE k \in holders : \A h \in holders : k <= h]

RECURSIVE findParent(_, _, _, _)
findParent(nf, list, i, target) ==
    IF i > Len(list) THEN NoObj
    ELSE
        LET n == list[i]
            found == IF hasChildren(nf, n) THEN findParent(nf, nf[n].children, 1, target)
                     ELSE NoObj
        IN  IF hasChildren(nf, n) /\ target \in Elems(nf[n].children) THEN n
            ELSE IF found # NoObj THEN found
            ELSE findParent(nf, list, i + 1, target)

getParent(s, element) == findParent(s.node, s.data, 1, element)

\* ------------------------------------------------------- Expand/Collapse State

\* resetNodeState that does not descend into the children.
resetNodeState_Shallow(s, targetNode, state) ==
    IF s.node[targetNode].type = "group"
    THEN Ev([s EXCEPT !.node[targetNode].collapsibleState = state,
                      !.node[targetNode].id = generateId(s, targetNode)],
            "newId", NoObj)
    ELSE s

RECURSIVE resetNodeState(_, _, _)
RECURSIVE resetEach(_, _, _, _)
\* resetNodeState of collapseRecursive (state = "Collapsed") and of
\* expandRecursive (state = "Expanded").
resetNodeState(s, targetNode, state) ==
    IF s.node[targetNode].type = "group"
    THEN LET s1 == Ev([s EXCEPT !.node[targetNode].collapsibleState = state,
                                !.node[targetNode].id = generateId(s, targetNode)],
                      "newId", NoObj)
         IN  resetEach(s1, s1.node[targetNode].children, 1, state)
    ELSE s

resetEach(s, list, i, state) ==
    IF i > Len(list) THEN s
    ELSE resetEach(resetNodeState(s, list[i], state), list, i + 1, state)

\* refreshParentOrRoot that always refreshes the whole tree.
refreshParentOrRoot_Root(s, n) == fire(s, NoObj)

refreshParentOrRoot(s, n) == fire(s, getParent(s, n))

setStateRecursive(s, n, state) ==
    LET targets == IF n # NoObj THEN <<n>> ELSE s.data
        s1 == resetEach(s, targets, 1, state)
        s2 == persist(sortNodesRecursive(s1))
    IN  IF n # NoObj THEN refreshParentOrRoot(s2, n) ELSE fire(s2, NoObj)

collapseRecursive(s, n) == setStateRecursive(s, n, "Collapsed")

expandRecursive(s, n) == setStateRecursive(s, n, "Expanded")

\* ------------------------------------------------------------ Import Pipeline

\* fs.readdirSync(p, { withFileTypes: true }): the entries of directory p in
\* the order the disk lists them; it throws (ok = FALSE) for a path that is
\* no readable directory.
readdirSync(p) ==
    IF p \in DOMAIN disk THEN [ok |-> TRUE, items |-> disk[p]]
    ELSE [ok |-> FALSE, items |-> << >>]

\* The segments of a path between its separators ("" segments included).
RECURSIVE Segments(_)
Segments(p) ==
    LET seps == { i \in 1..Len(p) : p[i] = "/" }
        firstSep == CHOOSE i \in seps : \A j \in seps : i <= j
    IN  IF seps = {} THEN <<p>>
        ELSE <<SubSeq(p, 1, firstSep - 1)>> \o Segments(SubSeq(p, firstSep + 1, Len(p)))

\* path.normalize's walk over the segments: "" and "." are dropped, ".."
\* takes back the segment before it (and is kept in a relative path that
\* has none to take back).
RECURSIVE NormalizeSegments(_, _, _)
NormalizeSegments(segs, i, stack) ==
    IF i > Len(segs) THEN stack
    ELSE IF segs[i] = << >> \/ segs[i] = <<".">>
         THEN NormalizeSegments(segs, i + 1, stack)
    ELSE IF segs[i] = <<".", ".">>
         THEN IF Len(stack.out) > 0 /\ stack.out[Len(stack.out)] # <<".", ".">>
              THEN NormalizeSegments(segs, i + 1,
                       [stack EXCEPT !.out = SubSeq(@, 1, Len(@) - 1)])
              ELSE IF stack.abs THEN NormalizeSegments(segs, i + 1, stack)
              ELSE NormalizeSegments(segs, i + 1, [stack EXCEPT !.out = Append(@, segs[i])])
    ELSE NormalizeSegments(segs, i + 1, [stack EXCEPT !.out = Append(@, segs[i])])

RECURSIVE JoinSegments(_, _)
JoinSegments(segs, i) ==
    IF i > Len(segs) THEN << >>
    ELSE segs[i] \o (IF i < Len(segs) THEN <<"/">> ELSE << >>) \o JoinSegments(segs, i + 1)

\* path.normalize (posix)
normalize(p) ==
    LET abs == Len(p) > 0 /\ p[1] = "/"
        trailing == Len(p) > 0 /\ p[Len(p)] = "/"
        out == NormalizeSegments(Segments(p), 1, [out |-> << >>, abs |-> abs]).out
        body == JoinSegments(out, 1)
    IN  IF p = << >> THEN <<".">>
        ELSE IF body = << >> THEN (IF abs THEN <<"/">> ELSE IF trailing THEN <<".", "/">> ELSE <<".">>)
        ELSE (IF abs THEN <<"/">> ELSE << >>) \o body \o (IF trailing THEN <<"/">> ELSE << >>)

\* A join that puts no separator between its arguments.
pathJoin_NoSeparator(dir, name) == dir \o name

\* path.join(dir, name): the non-empty arguments joined by a separator,
\* then normalized.
pathJoin(dir, name) ==
    IF dir = << >> THEN normalize(name)
    ELSE IF name = << >> THEN normalize(dir)
    ELSE normalize(dir \o <<"/">> \o name)

\* The entries that the directories of the disk list under path p.
EntriesAt(p) ==
    UNION { { disk[d][i] : i \in { j \in 1..Len(disk[d]) :
                                     pathJoin(d, disk[d][j].name) = p } }
            : d \in DOMAIN disk }

\* fs.existsSync(p): p is a directory of the disk or an entry of one.
existsSync(p) == p \in DOMAIN disk \/ EntriesAt(p) # {}

\* fs.statSync(p).isDirectory(), for a path that exists.
isDirectory(p) == p \in DOMAIN disk \/ \E e \in EntriesAt(p) : e.kind = "dir"

\* A reserved name that is spelt differently from the artifact's.
DSStore_Misspelt == <<".", "D", "S">>

DSStore == <<".", "D", "S", "_", "S", "t", "o", "r", "e">>

RECURSIVE scanRecursive(_, _, _)
RECURSIVE scanItems(_, _, _, _, _)
scanRecursive(s, currentPath, parentNode) ==
    LET dir == readdirSync(currentPath)
    IN  IF dir.ok THEN scanItems(s, dir.items, 1, currentPath, parentNode) ELSE s

scanItems(s, items, i, currentPath, parentNode) ==
    IF i > Len(items) THEN s
    ELSE
        LET item == items[i]
            fullPath == pathJoin(currentPath, item.name)
            o == NewObj(s)
            subGroup == [ id |-> generateId(s, o), label |-> item.name, type |-> "group",
                          children |-> << >>, filePath |-> fullPath,
                          collapsibleState |-> "Collapsed", cachedTreePath |-> NoStr ]
            fileNode == [ id |-> generateId(s, o), label |-> item.name, type |-> "file",
                          children |-> << >>, filePath |-> fullPath,
                          collapsibleState |-> "None", cachedTreePath |-> NoStr ]
            next ==
                IF shouldExclude(item.name) THEN s
                ELSE IF item.kind = "dir"
                THEN scanRecursive(push([s EXCEPT !.node[o] = subGroup], parentNode, o),
                                   fullPath, o)
                ELSE IF item.kind = "file"
                THEN IF item.name = DSStore THEN s
                     ELSE push([s EXCEPT !.node[o] = fileNode], parentNode, o)
                ELSE s
        IN  scanItems(next, items, i + 1, currentPath, parentNode)

\* importDirectory without the check of the directory's own name.
importDirectory_NoNameCheck(s, dirPath, parent) ==
    LET o  == NewObj(s)
        s1 == [s EXCEPT !.node[o] =
                  [ id |-> generateId(s, o), label |-> basename(dirPath), type |-> "group",
                    children |-> << >>, filePath |-> dirPath,
                    collapsibleState |-> "Expanded", cachedTreePath |-> NoStr ]]
        s2 == IF isGroupArg(s1, parent)
              THEN push(s1, parent, o)
              ELSE push(s1, RootOwner, o)
    IN  saveAndRefresh(scanRecursive(s2, dirPath, o))

\* importDirectory of a directory that is not excluded, up to its call of
\* saveAndRefresh.
importDirectoryStore(s, dirPath, parent) ==
    LET dirName == basename(dirPath)
        o  == NewObj(s)
        s1 == [s EXCEPT !.node[o] =
                  [ id |-> generateId(s, o), label |-> dirName, type |-> "group",
                    children |-> << >>, filePath |-> dirPath,
                    collapsibleState |-> "Expanded", cachedTreePath |-> NoStr ]]
        s2 == IF isGroupArg(s1, parent)
              THEN push(s1, parent, o)
              ELSE push(s1, RootOwner, o)
    IN  scanRecursive(s2, dirPath, o)

importDirectory(s, dirPath, parent) ==
    LET dirName == basename(dirPath)
    IN  IF shouldExclude(dirName) THEN s
        ELSE saveAndRefresh(importDirectoryStore(s, dirPath, parent))

\* Number of nodes scanRecursive(currentPath, _) constructs.
RECURSIVE ScanSize(_)
RECURSIVE ImportSizeItems(_, _, _)
ScanSize(currentPath) ==
    LET dir == readdirSync(currentPath)
    IN  IF dir.ok THEN ImportSizeItems(dir.items, 1, currentPath) ELSE 0

ImportSizeItems(items, i, currentPath) ==
    IF i > Len(items) THEN 0
    ELSE (IF shouldExclude(items[i].name) THEN 0
          ELSE IF items[i].kind = "dir"
          THEN 1 + ScanSize(pathJoin(currentPath, items[i].name))
          ELSE IF items[i].kind = "file" /\ items[i].name # DSStore THEN 1
          ELSE 0)
         + ImportSizeItems(items, i + 1, currentPath)

\* Number of nodes importDirectory(dirPath, _) constructs: none when the
\* directory's own name is excluded, else the root group and those of the scan.
ImportSize(dirPath) ==
    IF shouldExclude(basename(dirPath)) THEN 0 ELSE 1 + ScanSize(dirPath)

\* ------------------------------------------------------------------- commands

RECURSIVE removeEachTarget(_, _, _)
\* targets.forEach with removeNode left to save by itself.
removeEachTarget_SaveEach(s, targets, i) ==
    IF i > Len(targets) THEN s
    ELSE removeEachTarget(removeNode(s, targets[i], TRUE).s, targets, i + 1)

removeEachTarget(s, targets, i) ==
    IF i > Len(targets) THEN s
    ELSE removeEachTarget(removeNode(s, targets[i], FALSE).s, targets, i + 1)

\* The customExplorer.removeEntry command: (node, nodes) are the command's
\* arguments, selection is treeView.selection.
removeEntryTargets(n, nodes, selection) ==
    IF Len(nodes) > 0 THEN nodes
    ELSE IF n # NoObj THEN <<n>>
    ELSE selection

\* removeEntry that saves only when a removeNode call removed something.
removeEntry_IfRemoved(s, n, nodes, selection) ==
    LET targets == removeEntryTargets(n, nodes, selection)
        s1 == removeEachTarget(s, targets, 1)
    IN  IF Len(targets) = 0 THEN s
        ELSE IF s1.data = s.data /\ s1.node = s.node THEN s1
        ELSE saveAndRefresh(s1)

removeEntry(s, n, nodes, selection) ==
    LET targets == removeEntryTargets(n, nodes, selection)
    IN  IF Len(targets) = 0 THEN s
        ELSE saveAndRefresh(removeEachTarget(s, targets, 1))

\* ------------------------------------------------------------------- loadData

\* JSON parsing of a stored sibling list into the list owned by `owner`:
\* every node is a newly constructed object.
RECURSIVE Deserialize(_, _, _, _)
Deserialize(s, tree, i, owner) ==
    IF i > Len(tree) THEN s
    ELSE LET o  == NewObj(s)
             s1 == [s EXCEPT !.node[o] = [tree[i] EXCEPT !.children = << >>]]
             s2 == SetList(s1, owner, Append(GetList(s1, owner), o))
         IN  Deserialize(Deserialize(s2, tree[i].children, 1, o), tree, i + 1, owner)

\* loadData in a newly started extension host: no object of an earlier
\* session exists.
loadData(s) ==
    LET s0 == [s EXCEPT !.data = << >>, !.node = [o \in Obj |-> Blank]]
    IN  rebuildIndex(Deserialize(s0, s.stored, 1, RootOwner))

\* --------------------------------------------------------------- state machine

\* The disk and the setting of the everyday case: directory /a holds the
\* file f, names ending in .m are excluded.
DefaultDisk == [p \in {PathA} |-> << [name |-> <<"f">>, kind |-> "file"] >>]
DefaultConfig == { <<".", "m">> }

\* loadData with nothing stored: data = [], both indexes rebuilt (empty).
Init ==
    /\ data = << >>
    /\ node = [o \in Obj |-> Blank]
    /\ pathIndex = EmptyMap
    /\ uriToNodeMap = EmptyMap
    /\ stored = << >>
    /\ disk = DefaultDisk
    /\ config = DefaultConfig
    /\ pending = << >>
    /\ log = << >>
    /\ last = [op |-> "loadData"]
    /\ steps = 0

\* The provider as a handler finds it.
Cur ==
    [ data |-> data, node |-> node, pathIndex |-> pathIndex,
      uriToNodeMap |-> uriToNodeMap, stored |-> stored, log |-> << >> ]

\* The nodes that suspended commands captured as their argument.
Captured(p) == { p[i].node : i \in 1..Len(p) } \ {NoObj}

\* When a handler returns, a node object that neither a sibling list of the
\* forest nor a suspended command (directly, or through the children of a
\* captured node) refers to is garbage: its slot is free again.
Collect(s, p) ==
    LET live == Reach(s) \cup Captured(p)
                    \cup UNION { ReachFrom(s.node, s.node[o].children) : o \in Captured(p) }
    IN  [o \in Obj |-> IF o \in live THEN s.node[o] ELSE Blank]

\* The handler's result becomes the state; p is what stays suspended.
CommitPending(s, op, p) ==
    /\ steps < MaxSteps
    /\ steps' = steps + 1
    /\ data' = s.data
    /\ node' = Collect(s, p)
    /\ pathIndex' = s.pathIndex
    /\ uriToNodeMap' = s.uriToNodeMap
    /\ stored' = s.stored
    /\ pending' = p
    /\ log' = s.log
    /\ last' = op
    /\ UNCHANGED <<disk, config>>

Commit(s, op) == CommitPending(s, op, pending)

\* Node references a caller can hold: any live object, or none.
Refs == Allocated(node)
OptRefs == Refs \cup {NoObj}

Batches(S) == UNION { [1..n -> S] : n \in 1..MaxBatch }

CanConstruct(n) == Cardinality(Allocated(node)) + n <= MaxNodes

DropFiles == { PathAF, PathFM }
DropDirs == { PathA }
RenameEvents ==
    { [oldPath |-> PathA, newPath |-> PathB], [oldPath |-> PathAF, newPath |-> PathAG] }
DeleteEvents == { PathA, PathAF }

AddGroup ==
    \E label \in UserLabels, parent \in OptRefs :
        /\ CanConstruct(1)
        /\ Commit(addGroup(Cur, label, parent),
                  [op |-> "addGroup", label |-> label, parent |-> parent])

AddFile ==
    \E filePath \in DropFiles, parent \in OptRefs :
        /\ CanConstruct(1)
        /\ Commit(addFile(Cur, filePath, parent),
                  [op |-> "addFile", filePath |-> filePath, parent |-> parent])

ImportDirectory ==
    \E dirPath \in DropDirs, parent \in OptRefs :
        /\ CanConstruct(ImportSize(dirPath))
        /\ Commit(importDirectory(Cur, dirPath, parent),
                  [op |-> "importDirectory", dirPath |-> dirPath, parent |-> parent])

RenameNode ==
    \E n \in Refs, newName \in UserLabels :
        Commit(renameNode(Cur, n, newName),
               [op |-> "renameNode", n |-> n, newName |-> newName])

RemoveNode ==
    \E n \in Refs :
        LET r == removeNode(Cur, n, TRUE)
        IN  Commit(r.s, [op |-> "removeNode", n |-> n, result |-> r.result])

RemoveEntry ==
    \E targets \in Batches(Refs) :
        Commit(removeEntry(Cur, NoObj, targets, << >>),
               [op |-> "removeEntry", targets |-> targets])

\* handleDrop with an internal drag payload.
MoveNodes ==
    \E sources \in Batches(Refs), target \in OptRefs :
        Commit(moveNodes(Cur, sources, target),
               [op |-> "moveNodes", sources |-> sources, target |-> target])

HandleFileRename ==
    \E files \in Batches(RenameEvents) :
        Commit(handleFileRename(Cur, files), [op |-> "handleFileRename", files |-> files])

HandleFileDelete ==
    \E files \in Batches(DeleteEvents) :
        Commit(handleFileDelete(Cur, files), [op |-> "handleFileDelete", files |-> files])

CollapseRecursive ==
    \E n \in OptRefs :
        Commit(collapseRecursive(Cur, n), [op |-> "collapseRecursive", n |-> n])

ExpandRecursive ==
    \E n \in OptRefs :
        Commit(expandRecursive(Cur, n), [op |-> "expandRecursive", n |-> n])

Next ==
    \/ AddGroup
    \/ AddFile
    \/ ImportDirectory
    \/ RenameNode
    \/ RemoveNode
    \/ RemoveEntry
    \/ MoveNodes
    \/ HandleFileRename
    \/ HandleFileDelete
    \/ CollapseRecursive
    \/ ExpandRecursive

Spec == Init /\ [][Next]_vars

\* ---------------------------------------------------- imports from many disks

PathAB  == <<"/", "a", "/", "b">>
PathABM == <<"/", "a", "/", "b", ".", "m">>

File(name) == [name |-> name, kind |-> "file"]
Dir(name) == [name |-> name, kind |-> "dir"]

\* /a holds f, the directory b (holding g) and .DS_Store.
DiskNested ==
    [p \in {PathA, PathAB} |->
        IF p = PathA
        THEN << File(<<"f">>), Dir(<<"b">>),
                File(<<".", "D", "S", "_", "S", "t", "o", "r", "e">>) >>
        ELSE << File(<<"g">>) >>]
\* /a holds f.m and f.
DiskSuffix == [p \in {PathA} |-> << File(<<"f", ".", "m">>), File(<<"f">>) >>]
\* /a holds the directory b, which cannot be read, a socket g, and f.
DiskUnreadable ==
    [p \in {PathA} |-> << Dir(<<"b">>), [name |-> <<"g">>, kind |-> "other"], File(<<"f">>) >>]
\* /a holds the directory b.m (holding g) and f.
DiskDirSuffix ==
    [p \in {PathA, PathABM} |->
        IF p = PathA THEN << Dir(<<"b", ".", "m">>), File(<<"f">>) >>
        ELSE << File(<<"g">>) >>]

Disks == { DiskNested, DiskSuffix, DiskUnreadable, DiskDirSuffix }
Configs == { {}, DefaultConfig }
\* Directories dropped on the view: /a, /b (on no disk: it cannot be read)
\* and /f.m.
ImportDirs == { PathA, PathB, PathFM }

\* The extension starts with nothing stored, on any of the disks, under any
\* of the settings.
InitImport ==
    /\ data = << >>
    /\ node = [o \in Obj |-> Blank]
    /\ pathIndex = EmptyMap
    /\ uriToNodeMap = EmptyMap
    /\ stored = << >>
    /\ disk \in Disks
    /\ config \in Configs
    /\ pending = << >>
    /\ log = << >>
    /\ last = [op |-> "loadData"]
    /\ steps = 0

\* importDirectory of any dropped directory, as far as objects are left.
ImportDirectoryFromDisk ==
    \E dirPath \in ImportDirs, parent \in OptRefs :
        /\ ImportSize(dirPath) <= FreeObjs(Cur)
        /\ Commit(importDirectory(Cur, dirPath, parent),
                  [op |-> "importDirectory", dirPath |-> dirPath, parent |-> parent])

\* The user edits the setting customExplorer.excludeExtensions.
ChangeConfiguration ==
    \E c \in Configs \ {config} :
        /\ steps < MaxSteps
        /\ steps' = steps + 1
        /\ config' = c
        /\ log' = << >>
        /\ last' = [op |-> "changeConfiguration"]
        /\ UNCHANGED <<data, node, pathIndex, uriToNodeMap, stored, disk, pending>>

NextImport ==
    \/ ImportDirectoryFromDisk
    \/ AddGroup
    \/ AddFile
    \/ ChangeConfiguration

SpecImport == InitImport /\ [][NextImport]_vars

\* ------------------------------------------------- notifications of the disk

\* Files dropped on the view: /a/f, and /ab/f of the directory next to /a.
SyncFiles == { PathAF, PathABF }

\* addFile of one of these files.
AddSyncFile ==
    \E filePath \in SyncFiles, parent \in OptRefs :
        /\ CanConstruct(1)
        /\ Commit(addFile(Cur, filePath, parent),
                  [op |-> "addFile", filePath |-> filePath, parent |-> parent])

NextSync ==
    \/ ImportDirectory
    \/ AddSyncFile
    \/ MoveNodes
    \/ HandleFileRename
    \/ HandleFileDelete

SpecSync == Init /\ [][NextSync]_vars

\* ------------------------------------------------------ commands with a prompt

\* What showInputBox resolves to: undefined when the prompt is dismissed,
\* else the text of the box, which may be empty.
PromptResults ==
    { [cancelled |-> TRUE, value |-> NoStr] }
        \cup { [cancelled |-> FALSE, value |-> v] : v \in UserLabels \cup {NoStr} }

\* A check that takes only a dismissed prompt for an abandoned command.
isFalsy_DismissedOnly(input) == input.cancelled

\* !label
isFalsy(input) == input.cancelled \/ input.value = NoStr

\* A command runs up to `await vscode.window.showInputBox(...)`.
Suspend(cmd, n) ==
    /\ Len(pending) < MaxPending
    /\ steps < MaxSteps
    /\ steps' = steps + 1
    /\ pending' = Append(pending, [cmd |-> cmd, node |-> n])
    /\ log' = << >>
    /\ last' = [op |-> "showInputBox", cmd |-> cmd, node |-> n]
    /\ UNCHANGED <<data, node, pathIndex, uriToNodeMap, stored, disk, config>>

AddRootGroupCommand == Suspend("addRootGroup", NoObj)

AddGroupCommand == \E n \in OptRefs : Suspend("addGroup", n)

RenameEntryCommand == \E n \in Refs : Suspend("renameEntry", n)

\* The rest of a suspended command, once its prompt has resolved.
resumeCommand(s, c, input) ==
    IF isFalsy(input) THEN s
    ELSE IF c.cmd = "addRootGroup" THEN addGroup(s, input.value, NoObj)
    ELSE IF c.cmd = "addGroup" THEN addGroup(s, input.value, c.node)
    ELSE renameNode(s, c.node, input.value)

InputBoxResolves ==
    \E i \in 1..Len(pending), input \in PromptResults :
        /\ (pending[i].cmd # "renameEntry" /\ ~isFalsy(input)) => CanConstruct(1)
        /\ CommitPending(resumeCommand(Cur, pending[i], input),
                         [op |-> "inputBox", cmd |-> pending[i].cmd,
                          node |-> pending[i].node, input |-> input],
                         RemoveAt(pending, i))

NextCommands ==
    \/ AddRootGroupCommand
    \/ AddGroupCommand
    \/ RenameEntryCommand
    \/ InputBoxResolves
    \/ AddGroup
    \/ AddFile
    \/ ImportDirectory
    \/ RemoveNode
    \/ RemoveEntry

SpecCommands == Init /\ [][NextCommands]_vars

\* ------------------------------------------------------------ batch removals

\* customExplorer.removeEntry without arguments (the Delete key): the targets
\* are treeView.selection, which may be empty.
RemoveSelection ==
    \E selection \in Batches(Refs) \cup {<< >>} :
        Commit(removeEntry(Cur, NoObj, << >>, selection),
               [op |-> "removeEntry", targets |-> selection])

NextBatch ==
    \/ RenameEntryCommand
    \/ InputBoxResolves
    \/ AddGroup
    \/ AddFile
    \/ ImportDirectory
    \/ RemoveNode
    \/ RemoveEntry
    \/ RemoveSelection
    \/ HandleFileDelete

SpecBatch == Init /\ [][NextBatch]_vars

\* ------------------------------------------------------------- the event loop

\* SpecEventLoop runs the handlers statement by statement on the host's
\* event loop.  A task is one invocation of a command, a drop or a
\* notification: [id, cmd, node, arg, rest], where rest is what it has still
\* to execute.  The task on the stack is last.task; a task that reached an
\* `await` waits in `pending`; the loop takes up another task only when the
\* stack is empty.

MaxTasks == 3

Instr(i, m) == [i |-> i, m |-> m]

Await == Instr("await", 0)

\* A mutation whose write of the persisted state is awaited.
Mutation_AwaitsWrite(m) ==
    << Instr("store", m), Instr("sort", m), Instr("rebuild", m), Instr("sort", m),
       Instr("persist", m), Await, Instr("fire", m) >>

\* The m-th mutation of a task: the store operation, then saveAndRefresh
\* (sortNodesRecursive; saveData: rebuildIndex, sortNodesRecursive,
\* workspaceState.update; fire), none of them awaited.
Mutation(m) ==
    << Instr("store", m), Instr("sort", m), Instr("rebuild", m), Instr("sort", m),
       Instr("persist", m), Instr("fire", m) >>

RECURSIVE Mutations(_, _)
Mutations(m, k) == IF m > k THEN << >> ELSE Mutation(m) \o Mutations(m + 1, k)

PromptCommands == {"addGroup", "renameEntry"}

\* The statements of a handler: the commands with a prompt await
\* showInputBox and then mutate; handleDrop awaits asString() and then takes
\* one path after the other; handleFileDelete awaits nothing.
Program(cmd, arg) ==
    IF cmd \in PromptCommands THEN <<Await>> \o Mutation(1)
    ELSE IF cmd = "drop" THEN <<Await>> \o Mutations(1, Len(arg))
    ELSE Mutation(1)

\* A task is on the stack and has statements left.
Running ==
    /\ last.op \in {"dispatch", "resume", "step"}
    /\ last.task.rest # << >>

\* The host calls a handler: only with an empty stack.
Dispatch(cmd, n, arg) ==
    /\ ~Running
    /\ steps < MaxTasks
    /\ steps' = steps + 1
    /\ last' = [op |-> "dispatch", i |-> Instr("call", 0),
                task |-> [id |-> steps + 1, cmd |-> cmd, node |-> n, arg |-> arg,
                          rest |-> Program(cmd, arg)]]
    /\ UNCHANGED <<data, node, pathIndex, uriToNodeMap, stored, disk, config, pending, log>>

PromptCommand ==
    \E cmd \in PromptCommands, n \in OptRefs :
        /\ cmd = "renameEntry" => n # NoObj
        /\ Dispatch(cmd, n, NoStr)

\* Paths dropped on the view: the directory /a, its file /a/f, and /f.m.
DropPaths == { PathA, PathAF, PathFM }

\* handleDrop with a text/uri-list of paths.
ExternalDrop ==
    \E paths \in Batches(DropPaths), target \in OptRefs : Dispatch("drop", target, paths)

DeleteNotification ==
    \E files \in Batches(DeleteEvents) : Dispatch("delete", NoObj, files)

\* The task on the stack reaches an await: it leaves the stack.
Yield ==
    /\ Running
    /\ Head(last.task.rest) = Await
    /\ Len(pending) < MaxPending
    /\ pending' = Append(pending, [last.task EXCEPT !.rest = Tail(@)])
    /\ last' = [op |-> "yield", i |-> Await, task |-> [last.task EXCEPT !.rest = Tail(@)]]
    /\ UNCHANGED <<data, node, pathIndex, uriToNodeMap, stored, disk, config, log, steps>>

\* The task waits for its prompt.
AwaitsPrompt(t) == t.cmd \in PromptCommands /\ t.arg = NoStr

\* How many nodes the loop of handleDrop constructs for the dropped path
\* fsPath: none for a path that does not exist, those of importDirectory for
\* a directory, and for anything else the one of addFile unless the name is
\* excluded.
DropSize(fsPath) ==
    IF ~existsSync(fsPath) THEN 0
    ELSE IF isDirectory(fsPath) THEN ImportSize(fsPath)
    ELSE IF shouldExclude(basename(fsPath)) THEN 0
    ELSE 1

\* How many nodes the store operation of task t's m-th mutation constructs.
StoreSize(t, m) ==
    IF t.cmd = "addGroup" THEN 1
    ELSE IF t.cmd = "drop" THEN DropSize(t.arg[m])
    ELSE 0

RECURSIVE ConstructsFrom(_, _)
ConstructsFrom(t, j) ==
    IF j > Len(t.rest) THEN 0
    ELSE (IF t.rest[j].i = "store" THEN StoreSize(t, t.rest[j].m) ELSE 0)
         + ConstructsFrom(t, j + 1)

\* How many nodes the rest of task t constructs.
Constructs(t) == ConstructsFrom(t, 1)

\* What a task awaits has arrived, and the stack is empty: the task goes
\* on.  After showInputBox the command returns on a falsy input.
Resume ==
    /\ ~Running
    /\ \E k \in 1..Len(pending), input \in PromptResults :
          LET t  == pending[k]
              t1 == IF ~AwaitsPrompt(t) THEN t
                    ELSE IF isFalsy(input) THEN [t EXCEPT !.rest = << >>]
                    ELSE [t EXCEPT !.arg = input.value]
          IN  /\ CanConstruct(Constructs(t1))
              /\ pending' = RemoveAt(pending, k)
              /\ last' = [op |-> "resume", i |-> Await, task |-> t1]
              /\ node' = Collect(Cur, Append(pending', t1))
    /\ UNCHANGED <<data, pathIndex, uriToNodeMap, stored, disk, config, log, steps>>

\* One turn of the loop of handleDrop, for the dropped path fsPath: a path
\* that does not exist is skipped, a directory goes to importDirectory,
\* anything else to addFile; go tells whether saveAndRefresh follows.
dropStore(s, fsPath, target) ==
    IF ~existsSync(fsPath) THEN [s |-> s, go |-> FALSE]
    ELSE IF isDirectory(fsPath)
    THEN IF shouldExclude(basename(fsPath)) THEN [s |-> s, go |-> FALSE]
         ELSE [s |-> importDirectoryStore(s, fsPath, target), go |-> TRUE]
    ELSE IF shouldExclude(basename(fsPath)) THEN [s |-> s, go |-> FALSE]
         ELSE [s |-> addFileStore(s, fsPath, target), go |-> TRUE]

\* The store operation of task t's m-th mutation; go tells whether
\* saveAndRefresh follows.
storeOperation(s, t, m) ==
    IF t.cmd = "addGroup" THEN [s |-> addGroupStore(s, t.arg, t.node), go |-> TRUE]
    ELSE IF t.cmd = "renameEntry" THEN [s |-> renameNodeStore(s, t.node, t.arg), go |-> TRUE]
    ELSE IF t.cmd = "drop" THEN dropStore(s, t.arg[m], t.node)
    ELSE LET r == deleteEach([s |-> s, isChanged |-> FALSE], t.arg, 1)
         IN  [s |-> r.s, go |-> r.isChanged]

Execute(s, t, ins) ==
    IF ins.i = "store" THEN storeOperation(s, t, ins.m)
    ELSE IF ins.i = "sort" THEN [s |-> sortNodesRecursive(s), go |-> TRUE]
    ELSE IF ins.i = "rebuild" THEN [s |-> rebuildIndex(s), go |-> TRUE]
    ELSE IF ins.i = "persist" THEN [s |-> persist(s), go |-> TRUE]
    ELSE [s |-> fire(s, NoObj), go |-> TRUE]

\* The task on the stack executes its next statement.
Step ==
    /\ Running
    /\ Head(last.task.rest) # Await
    /\ LET t    == last.task
           ins  == Head(t.rest)
           r    == Execute([Cur EXCEPT !.log = IF ins.i = "store" THEN << >> ELSE log], t, ins)
           rest == IF r.go THEN Tail(t.rest)
                   ELSE SelectSeq(Tail(t.rest), LAMBDA x : x.m # ins.m)
           t1   == [t EXCEPT !.rest = rest]
       IN  /\ ins.i = "store" => CanConstruct(StoreSize(t, ins.m))
           /\ data' = r.s.data
           /\ node' = Collect(r.s, Append(pending, t1))
           /\ pathIndex' = r.s.pathIndex
           /\ uriToNodeMap' = r.s.uriToNodeMap
           /\ stored' = r.s.stored
           /\ log' = r.s.log
           /\ last' = [op |-> "step", i |-> ins, task |-> t1]
    /\ UNCHANGED <<disk, config, pending, steps>>

NextEventLoop ==
    \/ PromptCommand
    \/ ExternalDrop
    \/ DeleteNotification
    \/ Yield
    \/ Resume
    \/ Step

SpecEventLoop == Init /\ [][NextEventLoop]_vars

\* ------------------------------------------------------------ file decorations

\* vscode.languages.getDiagnostics(uri): the severities of the diagnostics
\* the host holds for a file; diags maps paths to sets of severities.
getDiagnostics(diags, uri) ==
    IF uri.scheme = "file" /\ uri.path \in DOMAIN diags THEN diags[uri.path] ELSE {}

\* The traversal of getGroupDecorationRecursive with a warning flag of its
\* own at each level.
RECURSIVE traverseDecoration_LocalFlag(_, _, _, _, _)
traverseDecoration_LocalFlag(nf, diags, nodes, i, hasWarning) ==
    IF i > Len(nodes)
    THEN [result |-> IF hasWarning THEN "warning" ELSE "none", hasWarning |-> hasWarning]
    ELSE
        LET child == nodes[i]
            d == getDiagnostics(diags, FileUri(nf[child].filePath))
            r == traverseDecoration_LocalFlag(nf, diags, nf[child].children, 1, FALSE)
        IN  IF nf[child].type = "file" /\ nf[child].filePath # NoStr
            THEN IF "Error" \in d THEN [result |-> "error", hasWarning |-> hasWarning]
                 ELSE traverseDecoration_LocalFlag(nf, diags, nodes, i + 1,
                                                   hasWarning \/ "Warning" \in d)
            ELSE IF nf[child].type = "group" /\ hasChildren(nf, child)
            THEN IF r.result = "error" THEN [result |-> "error", hasWarning |-> hasWarning]
                 ELSE traverseDecoration_LocalFlag(nf, diags, nodes, i + 1, hasWarning)
            ELSE traverseDecoration_LocalFlag(nf, diags, nodes, i + 1, hasWarning)

\* traverse of getGroupDecorationRecursive over nodes from index i on;
\* hasWarning is the one flag that all levels of the traversal share.
RECURSIVE traverseDecoration(_, _, _, _, _)
traverseDecoration(nf, diags, nodes, i, hasWarning) ==
    IF i > Len(nodes)
    THEN [result |-> IF hasWarning THEN "warning" ELSE "none", hasWarning |-> hasWarning]
    ELSE
        LET child == nodes[i]
            d == getDiagnostics(diags, FileUri(nf[child].filePath))
            r == traverseDecoration(nf, diags, nf[child].children, 1, hasWarning)
        IN  IF nf[child].type = "file" /\ nf[child].filePath # NoStr
            THEN IF "Error" \in d THEN [result |-> "error", hasWarning |-> hasWarning]
                 ELSE traverseDecoration(nf, diags, nodes, i + 1,
                                         hasWarning \/ "Warning" \in d)
            ELSE IF nf[child].type = "group" /\ hasChildren(nf, child)
            THEN IF r.result = "error" THEN [result |-> "error", hasWarning |-> r.hasWarning]
                 ELSE traverseDecoration(nf, diags, nodes, i + 1, r.hasWarning)
            ELSE traverseDecoration(nf, diags, nodes, i + 1, hasWarning)

\* "error", "warning", or "none" for no decoration.
getGroupDecorationRecursive(nf, diags, groupNode) ==
    IF ~hasChildren(nf, groupNode) \/ Len(nf[groupNode].children) = 0 THEN "none"
    ELSE traverseDecoration(nf, diags, nf[groupNode].children, 1, FALSE).result

\* treeItem.resourceUri of getTreeItem(element)
resourceUri(nf, element) ==
    IF nf[element].type = "file" /\ nf[element].filePath # NoStr
    THEN FileUri(nf[element].filePath)
    ELSE getCustomExplorerUri(nf, element)

\* The while loop of fireDidChangeFileDecorations: the group URIs of the
\* parents found by repeated getParentSync.
RECURSIVE parentUris(_, _)
parentUris(s, n) ==
    LET parent == getParent(s, n)
    IN  IF parent = NoObj THEN {}
        ELSE {getGroupUri(s.node, parent)} \cup parentUris(s, parent)

\* The set of URIs that fireDidChangeFileDecorations(uris) fires.
fireDidChangeFileDecorations(s, uris) ==
    UNION { {uris[i]} \cup
              (IF MapGet(s.uriToNodeMap, uris[i]) # NoObj
               THEN parentUris(s, MapGet(s.uriToNodeMap, uris[i]))
               ELSE {})
            : i \in 1..Len(uris) }

\* The files the host has diagnostics for, and what it may hold for each.
DiagnosedFiles == { PathAF, PathBF }
Severities == { {}, {"Warning"}, {"Error", "Warning"}, {"Information"} }
Diagnostics == [DiagnosedFiles -> Severities]

\* getDiagnosticDecoration(uri): "error", "warning", or "none" for no
\* decoration, from the diagnostics the host holds for the file of uri.
getDiagnosticDecoration(diags, uri) ==
    LET diagnostics == getDiagnostics(diags, uri)
    IN  IF diagnostics = {} THEN "none"
        ELSE IF "Error" \in diagnostics THEN "error"
        ELSE IF "Warning" \in diagnostics THEN "warning"
        ELSE "none"

\* provideFileDecoration(uri): the node that the identifier index holds for
\* uri, and the decoration computed for that node.
provideFileDecoration(s, diags, uri) ==
    LET n == MapGet(s.uriToNodeMap, uri)
    IN  [ node   |-> n,
          result |-> IF n = NoObj THEN "none"
                     ELSE IF s.node[n].type = "file"
                     THEN getDiagnosticDecoration(diags, uri)
                     ELSE getGroupDecorationRecursive(s.node, diags, n) ]

\* The host asks for the decoration of the resource URI under which
\* getTreeItem presents element n.
ProvideFileDecoration ==
    \E n \in Refs, diags \in Diagnostics :
        LET uri == resourceUri(node, n)
            r   == provideFileDecoration(Cur, diags, uri)
        IN  Commit(Cur, [op |-> "provideFileDecoration", n |-> n, uri |-> uri,
                         diags |-> diags, resolved |-> r.node, result |-> r.result])

\* onDidChangeDiagnostics for a list of files.
ChangeDiagnostics ==
    \E files \in Batches(DiagnosedFiles) :
        LET uris == [i \in 1..Len(files) |-> FileUri(files[i])]
        IN  Commit(Cur, [op |-> "changeDiagnostics", files |-> files,
                         fired |-> fireDidChangeFileDecorations(Cur, uris)])

AddDiagnosedFile ==
    \E filePath \in DiagnosedFiles, parent \in OptRefs :
        /\ CanConstruct(1)
        /\ Commit(addFile(Cur, filePath, parent),
                  [op |-> "addFile", filePath |-> filePath, parent |-> parent])

NextDecorations ==
    \/ AddGroup
    \/ AddDiagnosedFile
    \/ MoveNodes
    \/ CollapseRecursive
    \/ ProvideFileDecoration
    \/ ChangeDiagnostics

SpecDecorations == Init /\ [][NextDecorations]_vars

\* ------------------------------------------------- starting from a stored forest

\* What a stored node is: a group or a file, under one of the labels.
Kinds == [type : {"group", "file"}, label : UserLabels]
Groups == { k \in Kinds : k.type = "group" }

\* A stored node as an earlier session (of this or an earlier version of the
\* extension) serialized it: the i-th of the stored forest, of kind k, with
\* the stored nodes kids below it.
Stored(k, i, kids) ==
    [ id |-> i * IdGenerations, label |-> k.label, type |-> k.type, children |-> kids,
      filePath |-> IF k.type = "file" THEN <<"/">> \o k.label ELSE NoStr,
      collapsibleState |-> IF k.type = "group" THEN "Expanded" ELSE "None",
      cachedTreePath |-> NoStr ]

\* The stored forests of up to three nodes, in any sibling order.
StoredForests ==
    { << >> }
        \cup { << Stored(x, 1, << >>) >> : x \in Kinds }
        \cup { << Stored(x, 1, << >>), Stored(y, 2, << >>) >> : x \in Kinds, y \in Kinds }
        \cup { << Stored(x, 1, << Stored(y, 2, << >>) >>) >> : x \in Groups, y \in Kinds }
        \cup { << Stored(x, 1, << >>), Stored(y, 2, << >>), Stored(z, 3, << >>) >> :
                 x \in Kinds, y \in Kinds, z \in Kinds }
        \cup { << Stored(x, 1, << Stored(y, 2, << >>), Stored(z, 3, << >>) >>) >> :
                 x \in Groups, y \in Kinds, z \in Kinds }
        \cup { << Stored(x, 1, << Stored(y, 2, << >>) >>), Stored(z, 3, << >>) >> :
                 x \in Groups, y \in Kinds, z \in Kinds }
        \cup { << Stored(z, 3, << >>), Stored(x, 1, << Stored(y, 2, << >>) >>) >> :
                 x \in Groups, y \in Kinds, z \in Kinds }

\* The provider after its constructor ran loadData on what is stored.
Loaded(f) ==
    loadData([ data |-> << >>, node |-> [o \in Obj |-> Blank], pathIndex |-> EmptyMap,
               uriToNodeMap |-> EmptyMap, stored |-> f, log |-> << >> ])

\* The extension is activated with any of the stored forests.
InitLoad ==
    \E f \in StoredForests :
        /\ data = Loaded(f).data
        /\ node = Loaded(f).node
        /\ pathIndex = Loaded(f).pathIndex
        /\ uriToNodeMap = Loaded(f).uriToNodeMap
        /\ stored = f
        /\ disk = DefaultDisk
        /\ config = DefaultConfig
        /\ pending = << >>
        /\ log = << >>
        /\ last = [op |-> "loadData"]
        /\ steps = 0

\* this.sortNodesRecursive(this.data), by itself.
SortNodesRecursive ==
    LET s == sortNodesRecursive(Cur)
    IN  Commit(s, [op |-> "sortNodesRecursive",
                   changed |-> (s.data # data \/ s.node # node)])

\* The extension host restarts: a new provider is constructed and loads
\* what is stored.
Restart ==
    Commit(loadData(Cur), [op |-> "restart"])

NextLoad ==
    \/ SortNodesRecursive
    \/ Restart
    \/ AddFile
    \/ RenameNode

SpecLoad == InitLoad /\ [][NextLoad]_vars

\* ------------------------------------------------------------------ properties

Forest == ReachFrom(node, data)

SiblingLists == {data} \cup { node[o].children : o \in Forest }

\* Where object o sits: <<owner, index>> for each sibling list holding it.
Positions(d, nf, o) ==
    { <<RootOwner, i>> : i \in { k \in 1..Len(d) : d[k] = o } }
        \cup { pi \in Obj \X (1..Cardinality(Obj)) :
                 /\ pi[2] <= Len(nf[pi[1]].children)
                 /\ nf[pi[1]].children[pi[2]] = o }

Owners(d, nf, o) == { pi[1] : pi \in Positions(d, nf, o) }

\* o is reached from the root list by at most k child steps up from o.
RECURSIVE ReachesRoot(_, _, _, _)
ReachesRoot(d, nf, o, k) ==
    \/ RootOwner \in Owners(d, nf, o)
    \/ /\ k > 0
       /\ \E p \in Owners(d, nf, o) \ {RootOwner} : ReachesRoot(d, nf, p, k - 1)

Descendants(nf, o) == ReachFrom(nf, nf[o].children)

EvIdx(e) == { i \in 1..Len(log) : log[i].e = e }
Times(e) == Cardinality(EvIdx(e))
\* Where the handler changed the structure of the forest: a node spliced
\* out, a node pushed, a label or a filePath rewritten.
MutIdx == { i \in 1..Len(log) : log[i].e \in {"splice", "push", "setLabel", "setPath"} }
SaveCycleIdx == EvIdx("sort") \cup EvIdx("rebuild") \cup EvIdx("persist") \cup EvIdx("fire")

\* C1: in moveNodes a source S with target T = S or T a descendant of S is
\* rejected: S stays in the sibling list that held it, and when every source
\* of the batch is rejected the forest, every node attribute, both indexes
\* and the persisted state are unchanged and the handler sorts, writes and
\* notifies nothing.
C1_RejectedMoveChangesNothing ==
    [][ last'.op = "moveNodes" =>
          LET srcs == last'.sources
              T == last'.target
              Rejected(S) == T = S \/ T \in Descendants(node, S)
          IN  /\ \A i \in 1..Len(srcs) :
                    Rejected(srcs[i]) =>
                        Owners(data', node', srcs[i]) = Owners(data, node, srcs[i])
              /\ (\A i \in 1..Len(srcs) : Rejected(srcs[i])) =>
                    /\ data' = data
                    /\ node' = node
                    /\ pathIndex' = pathIndex
                    /\ uriToNodeMap' = uriToNodeMap
                    /\ stored' = stored
                    /\ log' = << >> ]_vars

\* A drop of a node onto one of its own descendants has been handled.
C1_Witness ==
    /\ last.op = "moveNodes"
    /\ \A i \in 1..Len(last.sources) :
          last.target = last.sources[i] \/ last.target \in Descendants(node, last.sources[i])
    /\ \E i \in 1..Len(last.sources) : last.target \in Descendants(node, last.sources[i])
    /\ log = << >>

\* C2: the forest is a set of rooted trees: every node object occurs in
\* exactly one sibling list, at one index, and climbing from it through its
\* owners reaches the root list (no node is its own descendant).
C2_ForestIsSetOfTrees ==
    \A o \in Allocated(node) :
        /\ Cardinality(Positions(data, node, o)) = 1
        /\ ReachesRoot(data, node, o, Cardinality(Obj))

\* Two sources were moved in one batch into a group that has a parent.
C2_Witness ==
    /\ last.op = "moveNodes"
    /\ Len(last.sources) = 2
    /\ Times("push") = 2
    /\ last.target \in Forest
    /\ \A i \in 1..2 : last.sources[i] \in Elems(node[last.target].children)

SaveCycleRan == EvIdx("rebuild") # {}

\* C3: after a save cycle the path index maps the filePath of every node
\* of the forest to that very node, and holds no node that left the forest.
C3_PathIndexExact ==
    SaveCycleRan =>
        /\ \A o \in Forest :
              node[o].filePath # NoStr => MapGet(pathIndex, node[o].filePath) = o
        /\ \A p \in DOMAIN pathIndex : pathIndex[p] \in Forest

SortedList(list) ==
    \A i, j \in 1..Len(list) :
        i < j =>
            /\ ~(node[list[i]].type = "file" /\ node[list[j]].type = "group")
            /\ node[list[i]].type = node[list[j]].type =>
                  ~StrLess(node[list[j]].label, node[list[i]].label)

\* C4: in every sibling list every group precedes every file, and among
\* siblings of one type the labels never decrease.
C4_SortLaw == \A list \in SiblingLists : SortedList(list)

\* A sort has put a later-constructed group in front of the siblings it was
\* appended after: three siblings, both types, two groups of different label.
C4_Witness ==
    /\ EvIdx("sort") # {}
    /\ \E list \in SiblingLists :
          /\ Len(list) = 3
          /\ node[list[1]].type = "group"
          /\ node[list[2]].type = "group"
          /\ node[list[3]].type = "file"
          /\ node[list[1]].label # node[list[2]].label
          /\ list[1] > list[2]

RECURSIVE PreorderIds(_, _)
PreorderIds(nf, list) ==
    IF list = << >> THEN << >>
    ELSE <<nf[Head(list)].id>> \o PreorderIds(nf, nf[Head(list)].children)
            \o PreorderIds(nf, Tail(list))

\* C5: no two nodes of the forest have the same id (given that the random
\* draw of generateId never repeats a value).
C5_IdsUnique ==
    LET ids == PreorderIds(node, data)
    IN  \A i, j \in 1..Len(ids) : i # j => ids[i] # ids[j]

\* A recursive collapse or expand has regenerated the ids of two groups.
C5_Witness ==
    /\ last.op \in {"collapseRecursive", "expandRecursive"}
    /\ Times("newId") >= 2
    /\ Cardinality(Forest) = MaxNodes

\* C6: a handler that changed the structure of the forest ends with a sort,
\* then an index rebuild, then a persistence write, then a refresh
\* notification, all after its last change.
C6_SaveCycleAfterChange ==
    MutIdx # {} =>
        \E i \in EvIdx("sort"), j \in EvIdx("rebuild"),
           k \in EvIdx("persist"), l \in EvIdx("fire") :
            /\ \A m \in MutIdx : m < i
            /\ i < j
            /\ j < k
            /\ k < l

\* A rename notification rewrote the filePath of a folder node and of a
\* node below it.
C6_Witness ==
    /\ last.op = "handleFileRename"
    /\ Times("setPath") >= 2

\* C7: the removeEntry command with n >= 1 targets writes once and notifies
\* once, after the last removal.
C7_RemoveEntryOneCycle ==
    last.op = "removeEntry" =>
        /\ Len(last.targets) >= 1
        /\ Times("persist") = 1
        /\ Times("fire") = 1
        /\ \A m \in EvIdx("splice") :
              \A k \in EvIdx("persist") \cup EvIdx("fire") : m < k

\* A multi-select delete removed two nodes.
C7_Witness ==
    /\ last.op = "removeEntry"
    /\ Len(last.targets) >= 2
    /\ Times("splice") >= 2

\* C8 as stated: every moveNodes performs exactly one sort, one rebuild,
\* one write and one notification, after the last reattachment.
C8_Original ==
    last.op = "moveNodes" =>
        /\ Times("sort") = 1
        /\ Times("rebuild") = 1
        /\ Times("persist") = 1
        /\ Times("fire") = 1
        /\ \A m \in EvIdx("push") : \A k \in SaveCycleIdx : m < k

\* C8, amended: a moveNodes that reattaches at least one source runs one
\* save cycle (two sort passes, one rebuild, one write, one notification),
\* all of it after the last reattachment; a moveNodes that reattaches no
\* source sorts, rebuilds, writes and notifies nothing.
C8_OneCycleWhenMoved ==
    last.op = "moveNodes" =>
        IF EvIdx("push") # {}
        THEN /\ Times("sort") = 2
             /\ Times("rebuild") = 1
             /\ Times("persist") = 1
             /\ Times("fire") = 1
             /\ \A m \in EvIdx("push") \cup EvIdx("splice") : \A k \in SaveCycleIdx : m < k
        ELSE SaveCycleIdx = {}

\* Two sources were reattached by one moveNodes.
C8_Witness ==
    /\ last.op = "moveNodes"
    /\ Times("push") >= 2

\* C9: a rename notification (oldPath -> newPath) moves the filePath of
\* every file node under oldPath to the same relative path under newPath,
\* wherever the node sits.
C9_RenameRewritesEveryNodeBelow ==
    [][ (last'.op = "handleFileRename" /\ Len(last'.files) = 1) =>
          LET oldPath == last'.files[1].oldPath
              newPath == last'.files[1].newPath
          IN  \A o \in Forest :
                  (node[o].type = "file" /\ startsWith(node[o].filePath, oldPath \o <<"/">>))
                      => node'[o].filePath
                            = newPath \o substring(node[o].filePath, Len(oldPath)) ]_vars

\* C10: no index is read after a structural change of the forest that no
\* index rebuild has followed yet.
C10_NoReadBeforeRebuild ==
    \A r \in EvIdx("read") :
        \A m \in MutIdx :
            m < r => \E b \in EvIdx("rebuild") : m < b /\ b < r


\* ---------------------------------------------------------------- import claims

\* A node with what hangs below it, object identity, id, logical path and
\* sibling order left aside.
RECURSIVE Shape(_, _)
Shape(nf, o) ==
    [ label |-> nf[o].label, type |-> nf[o].type, filePath |-> nf[o].filePath,
      state |-> nf[o].collapsibleState,
      children |-> { Shape(nf, nf[o].children[i]) : i \in 1..Len(nf[o].children) } ]

Excluded(name) == \E ext \in config : endsWith(name, ext)

\* What a directory of the disk looks like as nodes: a file node per regular
\* file whose name is neither excluded nor .DS_Store, a collapsed group per
\* subdirectory (per subdirectory with a name that is not excluded, when
\* skipDirs), mirrored in turn.
RECURSIVE MirrorChildren(_, _)
MirrorChildren(dir, skipDirs) ==
    LET entries == IF dir \in DOMAIN disk
                   THEN { disk[dir][i] : i \in 1..Len(disk[dir]) } ELSE {}
    IN  { [ label |-> e.name, type |-> "file", filePath |-> dir \o <<"/">> \o e.name,
            state |-> "None", children |-> {} ] :
            e \in { x \in entries : /\ x.kind = "file"
                                    /\ ~Excluded(x.name)
                                    /\ x.name # <<".", "D", "S", "_", "S", "t", "o", "r", "e">> } }
        \cup
        { [ label |-> e.name, type |-> "group", filePath |-> dir \o <<"/">> \o e.name,
            state |-> "Collapsed",
            children |-> MirrorChildren(dir \o <<"/">> \o e.name, skipDirs) ] :
            e \in { x \in entries : x.kind = "dir" /\ (skipDirs => ~Excluded(x.name)) } }

MirrorRoot(dirPath, skipDirs) ==
    [ label |-> basename(dirPath), type |-> "group", filePath |-> dirPath,
      state |-> "Expanded", children |-> MirrorChildren(dirPath, skipDirs) ]

\* The step is an importDirectory of a directory whose name is not excluded.
ImportStep ==
    /\ steps' = steps + 1
    /\ last'.op = "importDirectory"
    /\ ~Excluded(basename(last'.dirPath))

\* The sibling list the import's root group goes to, before and after.
ImportOwner == IF last'.parent # NoObj /\ node[last'.parent].type = "group"
               THEN last'.parent ELSE RootOwner
ImportListBefore == IF ImportOwner = RootOwner THEN data ELSE node[ImportOwner].children
ImportListAfter == IF ImportOwner = RootOwner THEN data' ELSE node'[ImportOwner].children
ImportedRoots == Elems(ImportListAfter) \ Elems(ImportListBefore)

\* C11 as stated: importDirectory of a directory whose name is not excluded
\* adds one expanded group (label = basename, filePath = dirPath) whose
\* subtree mirrors the whole directory: every subdirectory is a group, and a
\* regular file anywhere below is a file node exactly when its name has no
\* excluded suffix and is not .DS_Store.
C11_Original ==
    [][ ImportStep =>
          /\ Cardinality(ImportedRoots) = 1
          /\ \A r \in ImportedRoots : Shape(node', r) = MirrorRoot(last'.dirPath, FALSE) ]_vars

\* C11: importDirectory of a directory whose name is not excluded adds one
\* expanded group (label = basename, filePath = dirPath) whose subtree
\* mirrors the directories that are scanned, which are the root and every
\* subdirectory reached through names without an excluded suffix: in a
\* scanned directory a regular file is a file node (label = name, filePath =
\* full path) exactly when its name has no excluded suffix and is not
\* .DS_Store; nothing below a subdirectory with an excluded name is a node.
C11_ImportMirrorsScannedDirectories ==
    [][ ImportStep =>
          /\ Cardinality(ImportedRoots) = 1
          /\ \A r \in ImportedRoots : Shape(node', r) = MirrorRoot(last'.dirPath, TRUE)
          /\ Forest' = Forest \cup ImportedRoots
                          \cup UNION { Descendants(node', r) : r \in ImportedRoots } ]_vars

\* The import of /a holding f, b/g and .DS_Store has run: a group with the
\* file f and the group b in it.
C11_Witness ==
    /\ last.op = "importDirectory"
    /\ disk = DiskNested
    /\ \E r \in Forest :
          /\ node[r].filePath = PathA
          /\ Len(node[r].children) = 2
          /\ \E c \in Elems(node[r].children) : Len(node[c].children) = 1

\* The groups the import constructed.
ImportedGroups ==
    { g \in ImportedRoots \cup UNION { Descendants(node', r) : r \in ImportedRoots } :
        node'[g].type = "group" }

\* The entries of the directory that group g stands for.
DirEntriesOf(g) ==
    IF node'[g].filePath \in DOMAIN disk
    THEN { e \in { disk[node'[g].filePath][i] : i \in 1..Len(disk[node'[g].filePath]) } :
             e.kind = "dir" }
    ELSE {}

\* Group g holds a collapsed group for subdirectory e, with e's contents
\* below it.
HoldsSubdirectory(g, e, skipDirs) ==
    \E c \in Elems(node'[g].children) :
        Shape(node', c) =
            [ label |-> e.name, type |-> "group",
              filePath |-> node'[g].filePath \o <<"/">> \o e.name,
              state |-> "Collapsed",
              children |-> MirrorChildren(node'[g].filePath \o <<"/">> \o e.name, skipDirs) ]

\* C12 as stated: every subdirectory met in the scan, whatever its name, is
\* a collapsed group (label = name, filePath = its path) under the group of
\* the directory that holds it, and its contents are scanned in turn.
C12_Original ==
    [][ ImportStep =>
          \A g \in ImportedGroups : \A e \in DirEntriesOf(g) :
              HoldsSubdirectory(g, e, FALSE) ]_vars

\* C12: every subdirectory met in the scan whose name does not end with an
\* excluded suffix is a collapsed group (label = name, filePath = its path)
\* under the group of the directory that holds it, and its contents are
\* scanned in turn; a subdirectory whose name ends with an excluded suffix
\* is no node and is not scanned.
C12_SubdirectoriesBecomeGroups ==
    [][ ImportStep =>
          \A g \in ImportedGroups : \A e \in DirEntriesOf(g) :
              IF Excluded(e.name)
              THEN \A c \in Elems(node'[g].children) : node'[c].label # e.name
              ELSE HoldsSubdirectory(g, e, TRUE) ]_vars

\* An import has met the subdirectory b of /a and made it a collapsed group
\* holding g.
C12_Witness ==
    /\ last.op = "importDirectory"
    /\ \E c \in Forest :
          /\ node[c].filePath = PathAB
          /\ node[c].collapsibleState = "Collapsed"
          /\ \E f \in Elems(node[c].children) : node[f].filePath = PathAB \o <<"/", "g">>

\* C13: importDirectory of a directory whose basename ends with an excluded
\* suffix does nothing at all: no node is constructed, the forest, every
\* node, both indexes and the persisted state are as before, and the
\* handler sorts, rebuilds, writes and notifies nothing.
C13_ExcludedImportIsNoOp ==
    [][ ( /\ steps' = steps + 1
          /\ last'.op = "importDirectory"
          /\ Excluded(basename(last'.dirPath)) )
        => /\ data' = data
           /\ node' = node
           /\ pathIndex' = pathIndex
           /\ uriToNodeMap' = uriToNodeMap
           /\ stored' = stored
           /\ log' = << >> ]_vars

\* /f.m was imported into a forest that is not empty while .m is excluded.
C13_Witness ==
    /\ last.op = "importDirectory"
    /\ last.dirPath = PathFM
    /\ config = DefaultConfig
    /\ data # << >>

\* ------------------------------------------------------------------ addFile

AddFileOwner == IF last'.parent # NoObj /\ node[last'.parent].type = "group"
                THEN last'.parent ELSE RootOwner
AddFileListBefore == IF AddFileOwner = RootOwner THEN data ELSE node[AddFileOwner].children
AddFileListAfter == IF AddFileOwner = RootOwner THEN data' ELSE node'[AddFileOwner].children
AddedFiles == Elems(AddFileListAfter) \ Elems(AddFileListBefore)

\* C14: addFile(path, parent) of a path whose basename ends with an excluded
\* suffix changes nothing (forest, nodes, indexes, persisted state; nothing
\* is notified); any other addFile adds exactly one node, a file node with
\* label = basename(path) and filePath = path, to the children of parent
\* when parent is a group and to the root list otherwise, and every other
\* sibling list holds the nodes it held.
C14_AddFile ==
    [][ (steps' = steps + 1 /\ last'.op = "addFile") =>
          IF Excluded(basename(last'.filePath))
          THEN /\ data' = data
               /\ node' = node
               /\ pathIndex' = pathIndex
               /\ uriToNodeMap' = uriToNodeMap
               /\ stored' = stored
               /\ log' = << >>
          ELSE /\ Cardinality(AddedFiles) = 1
               /\ Len(AddFileListAfter) = Len(AddFileListBefore) + 1
               /\ \A n \in AddedFiles :
                     /\ n \notin Forest
                     /\ node'[n].type = "file"
                     /\ node'[n].label = basename(last'.filePath)
                     /\ node'[n].filePath = last'.filePath
                     /\ node'[n].children = << >>
                     /\ Forest' = Forest \cup {n}
               /\ Elems(data') \ AddedFiles = Elems(data)
               /\ \A o \in Forest :
                     /\ Elems(node'[o].children) \ AddedFiles = Elems(node[o].children)
                     /\ node'[o].type = node[o].type
                     /\ node'[o].label = node[o].label
                     /\ node'[o].filePath = node[o].filePath ]_vars

\* addFile has put a file into a group: the file node sits in the group's
\* children.
C14_Witness ==
    /\ last.op = "addFile"
    /\ last.parent # NoObj
    /\ node[last.parent].type = "group"
    /\ \E n \in Elems(node[last.parent].children) :
          node[n].type = "file" /\ node[n].filePath = last.filePath

\* ------------------------------------------------------- unreadable directories

\* The groups of the import whose directory could not be read.
UnreadGroups == { g \in ImportedGroups : node'[g].filePath \notin DOMAIN disk }

\* The import went on after the failed read: nothing hangs below the group
\* of a directory that could not be read, and everything else of the scanned
\* directories is there.
ScanWentOn ==
    /\ \A g \in UnreadGroups : node'[g].children = << >>
    /\ \A r \in ImportedRoots : Shape(node', r) = MirrorRoot(last'.dirPath, TRUE)

\* The handler ended with exactly one save cycle, after its last push.
OneSaveCycleAtEnd ==
    /\ Cardinality({ i \in 1..Len(log') : log'[i].e = "rebuild" }) = 1
    /\ Cardinality({ i \in 1..Len(log') : log'[i].e = "persist" }) = 1
    /\ Cardinality({ i \in 1..Len(log') : log'[i].e = "fire" }) = 1
    /\ \A i, j \in 1..Len(log') :
          (log'[i].e = "push" /\ log'[j].e \in {"sort", "rebuild", "persist", "fire"}) => i < j

\* C16: when a directory cannot be read during importDirectory, the import
\* still completes: the entries of that directory are skipped, the scan goes
\* on with the siblings after it, and the handler ends with one save cycle
\* that leaves every sibling list sorted and the path index exact (every
\* node with a filePath is what the index holds for that path, and the index
\* holds forest nodes only).
C16_ImportSurvivesReadFailure ==
    [][ (ImportStep /\ UnreadGroups # {}) =>
          /\ ScanWentOn
          /\ OneSaveCycleAtEnd
          /\ C4_SortLaw'
          /\ \A o \in Forest' :
                node'[o].filePath # NoStr => MapGet(pathIndex', node'[o].filePath) = o
          /\ \A q \in DOMAIN pathIndex' : pathIndex'[q] \in Forest' ]_vars

\* ------------------------------------------------------------------ removeNode

\* C15: removeNode(node) for a node that is not in the forest returns false
\* and changes nothing (forest, nodes, both indexes, persisted state; it
\* sorts, writes and notifies nothing); for a node of the forest it returns
\* true, and the node is in the forest no more.
C15_RemoveNode ==
    [][ (steps' = steps + 1 /\ last'.op = "removeNode") =>
          IF last'.n \in Forest
          THEN /\ last'.result = TRUE
               /\ last'.n \notin Forest'
          ELSE /\ last'.result = FALSE
               /\ data' = data
               /\ node' = node
               /\ pathIndex' = pathIndex
               /\ uriToNodeMap' = uriToNodeMap
               /\ stored' = stored
               /\ log' = << >> ]_vars

\* removeNode was called with a node that a suspended command still holds
\* and that had been removed before, while other nodes are in the forest.
C15_Witness ==
    /\ last.op = "removeNode"
    /\ last.result = FALSE
    /\ last.n \in Captured(pending)
    /\ last.n \notin Forest
    /\ data # << >>

\* ------------------------------------------------------------ abandoned prompts

\* C20: when the prompt of addRootGroup, addGroup or renameEntry is
\* dismissed or resolves to the empty text, the command does nothing more:
\* the forest, every node of it, both indexes and the persisted state are as
\* before, and nothing is sorted, written or notified.
C20_AbandonedPromptChangesNothing ==
    [][ ( /\ steps' = steps + 1
          /\ last'.op = "inputBox"
          /\ (last'.input.cancelled \/ last'.input.value = << >>) )
        => /\ data' = data
           /\ \A o \in Forest : node'[o] = node[o]
           /\ Forest' = Forest
           /\ pathIndex' = pathIndex
           /\ uriToNodeMap' = uriToNodeMap
           /\ stored' = stored
           /\ log' = << >> ]_vars

\* The prompt of a renameEntry on a node of the forest resolved to the
\* empty text.
C20_Witness ==
    /\ last.op = "inputBox"
    /\ last.cmd = "renameEntry"
    /\ ~last.input.cancelled
    /\ last.input.value = << >>
    /\ last.node \in Forest

\* ------------------------------------------------------------- sort idempotence

\* C19: sorting a forest twice in a row gives exactly what sorting it once
\* gives: the same order in every sibling list.
C19_SortIdempotent ==
    LET once == sortNodesRecursive(Cur)
        twice == sortNodesRecursive(once)
    IN  /\ twice.data = once.data
        /\ twice.node = once.node

\* The sort engine ran on a loaded forest and changed the order of a
\* sibling list that holds two nodes of one type and label.
C19_Witness ==
    /\ last.op = "sortNodesRecursive"
    /\ last.changed
    /\ \E list \in SiblingLists :
          /\ Len(list) = 3
          /\ \E i, j \in 1..3 :
                /\ i # j
                /\ node[list[i]].type = node[list[j]].type
                /\ node[list[i]].label = node[list[j]].label

\* ------------------------------------------------------------------ round trip

\* Of a serialized forest: the types and labels, nested and in order.
RECURSIVE Outline(_)
Outline(tree) ==
    [i \in 1..Len(tree) |->
        [type |-> tree[i].type, label |-> tree[i].label, children |-> Outline(tree[i].children)]]

\* The forest that loadData makes of the stored one has its nodes, types,
\* labels, parent/child relationships and sibling order.
LoadedAsStored ==
    [][ (steps' = steps + 1 /\ last'.op = "restart") =>
          /\ stored' = stored
          /\ Outline(Serialize(node', data')) = Outline(stored) ]_vars

\* C17: reloading the serialized forest with loadData yields a forest with
\* the same number of nodes, the same types and labels, the same parent/child
\* relationships and sibling order, and the indexes rebuilt at load are
\* correct for it: the path index holds, for the filePath of every node,
\* that very node, and no node outside the forest.
C17_RoundTrip ==
    [][ (steps' = steps + 1 /\ last'.op = "restart") =>
          /\ Outline(Serialize(node', data')) = Outline(stored)
          /\ \A o \in Forest' :
                node'[o].filePath # NoStr => MapGet(pathIndex', node'[o].filePath) = o
          /\ \A q \in DOMAIN pathIndex' : pathIndex'[q] \in Forest' ]_vars

\* ------------------------------------------------------------- nothing unflushed

\* C18: after every completed operation what is persisted under the storage
\* key is the forest in memory, every node with all its attributes, in
\* order: nothing an operation changed is left unwritten, the removals that
\* batch callers make with the save deferred included.
C18_PersistedIsInMemory == stored = Serialize(node, data)

\* A delete notification removed a node with the save deferred and left
\* other nodes in the forest.
C18_Witness ==
    /\ last.op = "handleFileDelete"
    /\ Times("splice") >= 1
    /\ data # << >>
    /\ stored # << >>

\* ------------------------------------------------------------- rename rewrites

\* Path p is path q or lies below q: q followed by a separator and more.
AtOrBelow(p, q) == p = q \/ startsWith(p, q \o <<"/">>)

\* C22: handleFileRename changes the filePath of a node only if that
\* filePath is the old path of a pair of the notification or lies below it
\* as whole path segments; a node whose filePath merely starts with the
\* letters of an old path (/ab/f when /a is renamed) keeps its filePath.
C22_RenameRewritesWholeSegmentsOnly ==
    [][ (steps' = steps + 1 /\ last'.op = "handleFileRename") =>
          \A o \in Forest :
              node'[o].filePath # node[o].filePath =>
                  \E i \in 1..Len(last'.files) :
                      AtOrBelow(node[o].filePath, last'.files[i].oldPath) ]_vars

\* --------------------------------------------------------- expand and collapse

Flipped(a, b) == {a, b} = {"Collapsed", "Expanded"}

\* C23: after every completed operation, collapseRecursive and
\* expandRecursive included, the identifier index maps the URI derived from
\* the current id of every group of the forest (getGroupUri) to that group.
C23_GroupUriIndexed ==
    \A g \in Forest :
        node[g].type = "group" => MapGet(uriToNodeMap, getGroupUri(node, g)) = g

\* C24: whenever an operation changes the collapsibleState of a group
\* from collapsed to expanded or back (collapseRecursive, expandRecursive,
\* the forced expansion of the parent or target in addGroup, addFile and
\* moveNodes), the same operation regenerates the id of that group.
C24_StateFlipRegeneratesId ==
    [][ \A g \in Forest \cap ReachFrom(node', data') :
          (node[g].type = "group"
             /\ Flipped(node[g].collapsibleState, node'[g].collapsibleState))
          => node'[g].id # node[g].id ]_vars

SetStateOps == {"collapseRecursive", "expandRecursive"}

StateOf(op) == IF op = "collapseRecursive" THEN "Collapsed" ELSE "Expanded"

\* The subtree a collapseRecursive / expandRecursive of n is aimed at: n and
\* its descendants, or the whole forest when no node is given.
Targeted(n) == IF n = NoObj THEN Forest ELSE {n} \cup Descendants(node, n)

\* The ids of the nodes of the forest.
ForestIds == { node[o].id : o \in Forest }

\* C25: after collapseRecursive(node) / expandRecursive(node) the node
\* and every group reachable from it through groups is collapsed / expanded
\* and has a regenerated id; with no node given that holds for every group
\* of the forest; file nodes keep their id and their state.
C25_SetStateRecursive ==
    [][ (steps' = steps + 1 /\ last'.op \in SetStateOps) =>
          /\ \A g \in Targeted(last'.n) :
                node[g].type = "group" =>
                    /\ node'[g].collapsibleState = StateOf(last'.op)
                    /\ node'[g].id \notin ForestIds
          /\ \A f \in Forest :
                node[f].type = "file" =>
                    /\ node'[f].id = node[f].id
                    /\ node'[f].collapsibleState = node[f].collapsibleState ]_vars

\* A group was collapsed that holds an expanded group, which holds a file.
C25_Witness ==
    /\ last.op = "collapseRecursive"
    /\ last.n \in Forest
    /\ \E h \in Elems(node[last.n].children) :
          /\ node[h].type = "group"
          /\ node[h].collapsibleState = "Collapsed"
          /\ \E f \in Elems(node[h].children) : node[f].type = "file"
    /\ Times("newId") = 2

\* The node that holds n in its children, if there is one.
ParentOf(n) ==
    IF n # NoObj /\ \E p \in Forest : n \in Elems(node[p].children)
    THEN CHOOSE p \in Forest : n \in Elems(node[p].children)
    ELSE NoObj

\* C26: collapseRecursive / expandRecursive leave the parent/child
\* structure, every label and filePath, the state and id of every node
\* outside the targeted subtree and both indexes as they were; they write
\* the persisted state once and notify once, of the parent of the given
\* node, or of the whole tree for a root entry or no node.
C26_SetStateFrame ==
    [][ (steps' = steps + 1 /\ last'.op \in SetStateOps) =>
          /\ Elems(data') = Elems(data)
          /\ \A o \in Forest :
                /\ Elems(node'[o].children) = Elems(node[o].children)
                /\ node'[o].type = node[o].type
                /\ node'[o].label = node[o].label
                /\ node'[o].filePath = node[o].filePath
          /\ \A o \in Forest \ Targeted(last'.n) :
                /\ node'[o].id = node[o].id
                /\ node'[o].collapsibleState = node[o].collapsibleState
          /\ pathIndex' = pathIndex
          /\ uriToNodeMap' = uriToNodeMap
          /\ Cardinality({ i \in 1..Len(log') : log'[i].e = "persist" }) = 1
          /\ \E i \in 1..Len(log') :
                /\ log'[i] = [e |-> "fire", o |-> ParentOf(last'.n)]
                /\ \A j \in 1..Len(log') : log'[j].e = "fire" => j = i ]_vars

\* A group inside a group was expanded next to a sibling file: the one
\* notification went to the parent.
C26_Witness ==
    /\ last.op = "expandRecursive"
    /\ ParentOf(last.n) # NoObj
    /\ node[last.n].type = "group"
    /\ Forest \ (Targeted(last.n) \cup {ParentOf(last.n)}) # {}
    /\ Times("persist") = 1
    /\ \E i \in EvIdx("fire") : log[i].o = ParentOf(last.n)

\* ------------------------------------------------------------- batch removals

\* How often the handler did e, in event log l.
Count(l, e) == Cardinality({ i \in 1..Len(l) : l[i].e = e })

BatchRemovals == {"removeEntry", "handleFileDelete"}

\* C27 as stated: a batch caller of removeNode (removeEntry,
\* handleFileDelete) writes and notifies only when a removeNode call of the
\* batch returned true; a batch whose removals all returned false writes
\* nothing and notifies nobody.
C27_Original ==
    (last.op \in BatchRemovals /\ Times("splice") = 0) =>
        (Times("persist") = 0 /\ Times("fire") = 0)

\* C27: removeEntry runs the save/refresh cycle once whenever its target
\* list is not empty, whatever its removeNode calls returned, and not at all
\* for an empty list; handleFileDelete runs it once when a path of the list
\* is in the path index, and not at all otherwise.
C27_BatchSaveCycle ==
    [][ (steps' = steps + 1 /\ last'.op \in BatchRemovals) =>
          LET due == IF last'.op = "removeEntry"
                     THEN Len(last'.targets) > 0
                     ELSE \E i \in 1..Len(last'.files) :
                              pathIndexGet(Cur, last'.files[i]) # NoObj
              n   == IF due THEN 1 ELSE 0
          IN  /\ Count(log', "rebuild") = n
              /\ Count(log', "persist") = n
              /\ Count(log', "fire") = n ]_vars

\* removeEntry was given two nodes that had left the forest: nothing was
\* spliced out, and the cycle ran.
C27_Witness ==
    /\ last.op = "removeEntry"
    /\ Len(last.targets) = 2
    /\ Times("splice") = 0
    /\ Times("persist") = 1
    /\ Times("fire") = 1

\* C28: after handleFileDelete of a list of paths no node of the forest
\* has a filePath of the list, the nodes the paths were indexed to are gone
\* from the forest with all their descendants, the path index has no entry
\* for a path of the list, and the list caused one save/refresh cycle, not
\* one per path.
C28_HandleFileDelete ==
    [][ (steps' = steps + 1 /\ last'.op = "handleFileDelete") =>
          LET files   == last'.files
              removed == { MapGet(pathIndex, files[i]) : i \in 1..Len(files) } \ {NoObj}
              after   == ReachFrom(node', data')
          IN  /\ \A i \in 1..Len(files) :
                    /\ \A o \in after : node'[o].filePath # files[i]
                    /\ MapGet(pathIndex', files[i]) = NoObj
              /\ \A n \in removed : ({n} \cup Descendants(node, n)) \cap after = {}
              /\ Count(log', "persist") <= 1
              /\ Count(log', "fire") <= 1
              /\ removed # {} => (Count(log', "persist") = 1 /\ Count(log', "fire") = 1) ]_vars

\* ---------------------------------------------------------- rename notifications

\* Where the handler wrote a label or a filePath, and where it ran a step of
\* the save/refresh cycle, in event log l.
WriteIdxIn(l) == { i \in 1..Len(l) : l[i].e \in {"setLabel", "setPath"} }
CycleIdxIn(l) == { i \in 1..Len(l) : l[i].e \in {"sort", "rebuild", "persist", "fire"} }

\* C29: in handleFileRename with k (old, new) pairs each pair whose old
\* path is indexed sets the label of the indexed node to the basename of
\* the new path and its filePath to the new path (seen after the
\* notification on every node that no later pair of the list wrote again);
\* the notification runs one save/refresh cycle, after the last pair, when
\* a pair matched, and none when no pair matched.
C29_HandleFileRename ==
    [][ (steps' = steps + 1 /\ last'.op = "handleFileRename") =>
          LET files   == last'.files
              hit(i)  == MapGet(pathIndex, files[i].oldPath)
              matched == { i \in 1..Len(files) : hit(i) # NoObj }
              last_(i) == \A j \in matched :
                              j > i => /\ hit(j) # hit(i)
                                       /\ hit(i) \notin Descendants(node, hit(j))
          IN  /\ \A i \in matched :
                    last_(i) =>
                        /\ node'[hit(i)].label = basename(files[i].newPath)
                        /\ node'[hit(i)].filePath = files[i].newPath
              /\ Count(log', "setLabel") = Cardinality(matched)
              /\ IF matched # {}
                 THEN /\ Count(log', "rebuild") = 1
                      /\ Count(log', "persist") = 1
                      /\ Count(log', "fire") = 1
                      /\ \A w \in WriteIdxIn(log') : \A c \in CycleIdxIn(log') : w < c
                 ELSE CycleIdxIn(log') = {} ]_vars

\* A notification with two different pairs, both of them indexed, was
\* handled with one write of the persisted state.
C29_Witness ==
    /\ last.op = "handleFileRename"
    /\ Len(last.files) = 2
    /\ last.files[1] # last.files[2]
    /\ Times("setLabel") = 2
    /\ Times("persist") = 1
    /\ Times("fire") = 1

\* ------------------------------------------------------------- display order

\* C30: the order of a sibling list after the sort is determined by the
\* set of nodes in it and not by the order in which they were inserted or
\* moved: an operation that leaves a list with the nodes it had, with the
\* types and labels they had, leaves it in the order it had (siblings of
\* one type with equal labels included).
C30_OrderDependsOnSetOnly ==
    [][ /\ ( Elems(data') = Elems(data)
             /\ \A o \in Elems(data) :
                   node'[o].type = node[o].type /\ node'[o].label = node[o].label )
            => data' = data
        /\ \A p \in Forest \cap ReachFrom(node', data') :
             ( Elems(node'[p].children) = Elems(node[p].children)
               /\ \A o \in Elems(node[p].children) :
                     node'[o].type = node[o].type /\ node'[o].label = node[o].label )
              => node'[p].children = node[p].children ]_vars

\* ---------------------------------------------------------------- atomicity

\* A task that waits in the middle of a mutation: the store operation of
\* the mutation has been executed, its notification has not yet.
MidMutation(t) == t.rest # << >> /\ Head(t.rest).i # "store"

\* C21: once a mutation has started (its prompt or its drop-payload read
\* has resolved), its store operation, sorts, index rebuild, write and
\* notification follow one another with no step of another mutation between
\* them: a step of a mutation is never executed while a task waits in the
\* middle of a mutation, and a mutation step is followed by the next step of
\* the same task until the notification.
C21_MutationsDoNotInterleave ==
    [][ /\ last'.op = "step" => \A k \in 1..Len(pending') : ~MidMutation(pending'[k])
        /\ (last.op = "step" /\ last.i.i # "fire" /\ MidMutation(last.task)) =>
              /\ last'.op = "step"
              /\ last'.task.id = last.task.id
              /\ last'.i.m = last.i.m ]_vars

\* The second file of a drop has been notified while a command waits for
\* its prompt: the drop was resumed after its payload read, which a command
\* invoked in between did not disturb.
C21_Witness ==
    /\ last.op = "step"
    /\ last.task.cmd = "drop"
    /\ last.i = Instr("fire", 2)
    /\ \E k \in 1..Len(pending) : pending[k].cmd \in PromptCommands
    /\ Times("persist") = 1

\* ------------------------------------------------------------------- moveNodes

\* What a node is, its logical path left aside.
Attrs(nf, o) ==
    [ id |-> nf[o].id, label |-> nf[o].label, type |-> nf[o].type,
      filePath |-> nf[o].filePath, state |-> nf[o].collapsibleState,
      children |-> nf[o].children ]

\* C35: moveNodes detaches a valid source S (S is not the target T and T
\* is not below S) from its parent: S becomes a child of T, and T expanded,
\* when T is a group, and a root entry when T is absent or a file node; the
\* subtree below S goes with it as it was.
C35_MoveNodes ==
    [][ (steps' = steps + 1 /\ last'.op = "moveNodes") =>
          LET srcs == last'.sources
              T == last'.target
              Valid(S) == S \in Forest /\ T # S /\ (T = NoObj \/ T \notin Descendants(node, S))
              intoT == T # NoObj /\ node[T].type = "group"
              Alone(S) == \A j \in 1..Len(srcs) : srcs[j] \notin Descendants(node, S)
          IN  \A i \in 1..Len(srcs) :
                Valid(srcs[i]) =>
                    /\ Owners(data', node', srcs[i]) = {IF intoT THEN T ELSE RootOwner}
                    /\ Cardinality(Positions(data', node', srcs[i])) = 1
                    /\ intoT => node'[T].collapsibleState = "Expanded"
                    /\ Alone(srcs[i]) =>
                          \A d \in {srcs[i]} \cup Descendants(node, srcs[i]) :
                              Attrs(node', d) = Attrs(node, d) ]_vars

\* A group that has a child was moved into another group.
C35_Witness ==
    /\ last.op = "moveNodes"
    /\ Len(last.sources) = 1
    /\ last.target \in Forest
    /\ node[last.target].type = "group"
    /\ last.sources[1] \in Elems(node[last.target].children)
    /\ node[last.sources[1]].children # << >>
    /\ Times("push") = 1

\* C36: moveNodes neither creates nor loses nodes: whatever the sources
\* (a source with one of its descendants, a source listed twice) and the
\* target, the nodes reachable from the roots are the same before and after.
C36_MoveKeepsNodes ==
    [][ (steps' = steps + 1 /\ last'.op = "moveNodes") =>
          ReachFrom(node', data') = Forest ]_vars

\* A group and its child were moved in one batch onto a file node.
C36_Witness ==
    /\ last.op = "moveNodes"
    /\ Len(last.sources) = 2
    /\ Times("push") = 2
    /\ last.target \in Forest
    /\ node[last.target].type = "file"
    /\ \E i, j \in 1..2 : node[last.sources[i]].type = "group" /\ i # j
    /\ Cardinality(Forest) = 3

\* -------------------------------------------------------- addGroup, renameNode

\* Sequence l without n.
Without(l, n) == SelectSeq(l, LAMBDA x : x # n)

\* C37: addGroup(label, parent) adds exactly one node: an expanded group
\* with that label, no children and no filePath, as a child of parent (which
\* becomes expanded) when parent is a group, as a root entry when parent is
\* absent or a file node; every other node keeps its attributes, its
\* siblings and their order.
C37_AddGroup ==
    [][ (steps' = steps + 1 /\ last'.op = "addGroup") =>
          LET parent == last'.parent
              under  == parent # NoObj /\ node[parent].type = "group"
              added  == ReachFrom(node', data') \ Forest
          IN  /\ Cardinality(added) = 1
              /\ ReachFrom(node', data') = Forest \cup added
              /\ \A n \in added :
                    /\ node'[n].type = "group"
                    /\ node'[n].label = last'.label
                    /\ node'[n].collapsibleState = "Expanded"
                    /\ node'[n].children = << >>
                    /\ node'[n].filePath = NoStr
                    /\ node'[n].id \notin ForestIds
                    /\ Owners(data', node', n) = {IF under THEN parent ELSE RootOwner}
                    /\ Without(data', n) = data
                    /\ \A o \in Forest :
                          /\ Without(node'[o].children, n) = node[o].children
                          /\ node'[o].id = node[o].id
                          /\ node'[o].label = node[o].label
                          /\ node'[o].type = node[o].type
                          /\ node'[o].filePath = node[o].filePath
                          /\ node'[o].collapsibleState =
                                IF under /\ o = parent THEN "Expanded"
                                ELSE node[o].collapsibleState ]_vars

\* A group was added to a group that held a node already.
C37_Witness ==
    /\ last.op = "addGroup"
    /\ last.parent \in Forest
    /\ node[last.parent].type = "group"
    /\ Len(node[last.parent].children) = 2
    /\ Times("push") = 1

\* C38: renameNode(node, newLabel) changes the label of node and nothing
\* but what the save cycle derives from labels (order, logical paths): every
\* filePath, the children of every node as a set, the root entries and all
\* ids are what they were, no other label changes, and the path index maps
\* the filePath of node to node as it did before.
C38_RenameNodeFrame ==
    [][ (steps' = steps + 1 /\ last'.op = "renameNode") =>
          LET n == last'.n
          IN  /\ node'[n].label = last'.newName
              /\ ReachFrom(node', data') = Forest
              /\ Elems(data') = Elems(data)
              /\ \A o \in Forest :
                    /\ node'[o].filePath = node[o].filePath
                    /\ node'[o].id = node[o].id
                    /\ node'[o].type = node[o].type
                    /\ node'[o].collapsibleState = node[o].collapsibleState
                    /\ Elems(node'[o].children) = Elems(node[o].children)
                    /\ o # n => node'[o].label = node[o].label
              /\ (node[n].filePath # NoStr /\ MapGet(pathIndex, node[n].filePath) = n)
                    => MapGet(pathIndex', node[n].filePath) = n ]_vars

\* --------------------------------------------------------------------- getParent

\* C40: getParent(node) is the one group of the forest whose children
\* hold node, and is absent exactly when node is a root entry or is not in
\* the forest; the search ends on every forest the program reaches.
C40_GetParent ==
    \A o \in Allocated(node) :
        LET holders == { p \in Forest : o \in Elems(node[p].children) }
        IN  /\ Cardinality(holders) <= 1
            /\ \A p \in holders : node[p].type = "group" /\ getParent(Cur, o) = p
            /\ getParent(Cur, o) = NoObj <=> (o \in Elems(data) \/ o \notin Forest)

\* The forest holds a file in a group, and a command still holds a node
\* that has left the forest.
C40_Witness ==
    /\ Allocated(node) \ Forest # {}
    /\ \E f \in Forest :
          /\ node[f].type = "file"
          /\ getParent(Cur, f) \in Forest

\* ---------------------------------------------------------------- logical paths

\* The labels from the root entry above o down to o, each after a slash.
RECURSIVE LogicalPath(_)
LogicalPath(o) ==
    (IF ParentOf(o) = NoObj THEN << >> ELSE LogicalPath(ParentOf(o)))
        \o <<"/">> \o node[o].label

\* C34: after a save cycle the cachedTreePath of every node of the forest
\* is the slash-joined labels from its root entry to itself, and the
\* identifier index maps the node's logical-path URI (getCustomExplorerUri)
\* to that very node, siblings with one label included.
C34_LogicalPathIndexed ==
    SaveCycleRan =>
        \A o \in Forest :
            /\ node[o].cachedTreePath = LogicalPath(o)
            /\ MapGet(uriToNodeMap, getCustomExplorerUri(node, o)) = o

\* ------------------------------------------------------------- file decorations

\* The groups above node o.
Ancestors(o) == { g \in Forest : o \in Descendants(node, g) }

\* The file nodes below group g.
FilesBelow(g) == { f \in Descendants(node, g) : node[f].type = "file" }

\* C31: the decoration computed for a group is "error" when a file node
\* below it, at any depth, has an error diagnostic, else "warning" when a
\* file node below it has a warning diagnostic, else none, whatever the
\* order of the siblings and the depth of the file.  The group is the one
\* that provideFileDecoration hands to getGroupDecorationRecursive.
C31_GroupDecoration ==
    (/\ last.op = "provideFileDecoration"
     /\ last.resolved # NoObj
     /\ node[last.resolved].type = "group") =>
        LET g == last.resolved
            sev(f) == getDiagnostics(last.diags, FileUri(node[f].filePath))
        IN  last.result =
                IF \E f \in FilesBelow(g) : "Error" \in sev(f) THEN "error"
                ELSE IF \E f \in FilesBelow(g) : "Warning" \in sev(f) THEN "warning"
                ELSE "none"

\* The decoration of a group is "warning" because of a file in a group
\* inside it.
C31_Witness ==
    /\ last.op = "provideFileDecoration"
    /\ last.resolved # NoObj
    /\ node[last.resolved].type = "group"
    /\ last.result = "warning"
    /\ \E h \in Elems(node[last.resolved].children) :
          /\ node[h].type = "group"
          /\ \E f \in Elems(node[h].children) :
                "Warning" \in getDiagnostics(last.diags, FileUri(node[f].filePath))

\* C32: for a diagnostic change on path p the notification that
\* fireDidChangeFileDecorations fires holds p and the group URI of every
\* group above every node of the forest whose filePath is p.
C32_AncestorsNotified ==
    last.op = "changeDiagnostics" =>
        \A i \in 1..Len(last.files) :
            /\ FileUri(last.files[i]) \in last.fired
            /\ \A o \in Forest :
                  node[o].filePath = last.files[i] =>
                      \A g \in Ancestors(o) : getGroupUri(node, g) \in last.fired

\* C33: for every group above a file whose diagnostics changed, the
\* notification holds the resource URI under which getTreeItem presents the
\* group.
C33_ShownUrisNotified ==
    last.op = "changeDiagnostics" =>
        \A i \in 1..Len(last.files) :
            \A o \in Forest :
                node[o].filePath = last.files[i] =>
                    \A g \in Ancestors(o) : resourceUri(node, g) \in last.fired

\* ------------------------------------------------------- nodes created after a wait

\* The handlers that construct nodes, called directly or as the rest of a
\* command whose prompt has resolved.
Constructing(l) ==
    \/ l.op \in {"addGroup", "addFile", "importDirectory"}
    \/ l.op = "inputBox" /\ l.cmd \in {"addRootGroup", "addGroup"}

\* C39: whatever happened while a command waited for its prompt or a drop
\* for its payload, every node that addGroup, addFile or importDirectory
\* constructs and pushes is reachable from the root list when the operation
\* completes, also when the captured parent or target has been removed from
\* the forest in the meantime.
C39_CreatedNodesReachable ==
    [][ (steps' = steps + 1 /\ Constructing(last')) =>
          Cardinality(ReachFrom(node', data') \ Forest) = Count(log', "push") ]_vars
=============================================================================
